---- MODULE Spec2Model ----
(***************************************************************************)
(* StepBy iterator adapter (core/src/iter/adapters/step_by.rs): the        *)
(* generic implementation and the Range<{integer}> specialization, run     *)
(* side by side over the same range and the same calls.                    *)
(***************************************************************************)
EXTENDS Integers, Sequences, FiniteSets, TLC

\* ------------------------------------------------------------------------
\* Bounds and machine arithmetic
\* ------------------------------------------------------------------------

\* usize::BITS of the modelled target
WordBits == 2

\* longest inner sequence of the non-range inner (may exceed usize::MAX items)
MaxLen == 14

\* usize::MAX
MAX == 2^WordBits - 1

\* <$t>::MAX of the integer types the specialization is instantiated for
\* (every $t has usize::BITS >= <$t>::BITS: one narrower type and usize)
TypeMaxes == {2^(WordBits - 1) - 1, MAX}

\* Option::None; Some(v) is v itself (v >= 0)
None == -1

\* usize arithmetic without overflow checks: the low WordBits bits
wrapping_sub(a, b) == (a - b + (MAX + 1)) % (MAX + 1)

wrapping_add(a, b) == (a + b) % (MAX + 1)

wrapping_mul(a, b) == (a * b) % (MAX + 1)

checked_mul(a, b) == IF a * b > MAX THEN None ELSE a * b

saturating_mul(a, b) == IF a * b > MAX THEN MAX ELSE a * b

saturating_add(a, b) == IF a + b > MAX THEN MAX ELSE a + b

div_ceil(a, b) == (a + b - 1) \div b

\* likely returning the opposite of its argument
likely_negated(b) == IF b THEN FALSE ELSE TRUE

\* intrinsics::likely: returns the value passed to it
likely(b) == IF b THEN TRUE ELSE FALSE

\* intrinsics::unlikely: returns the value passed to it
unlikely(b) == IF b THEN TRUE ELSE FALSE

\* ------------------------------------------------------------------------
\* The inner iterator consumed by the generic path.  It is a window
\* [front, back) of item indices; the item at index i is base + i (for a
\* Range<T> start..end: base = start, indices 0 .. end - start).
\* ------------------------------------------------------------------------

IterLen(it) == it.back - it.front

\* Iterator::nth: skip n items and return the next one; exhausts on failure
IterNth(it, n) ==
    IF n < IterLen(it)
    THEN [iter |-> [it EXCEPT !.front = it.front + n + 1], item |-> it.base + it.front + n]
    ELSE [iter |-> [it EXCEPT !.front = it.back], item |-> None]

\* Iterator::next
IterNext(it) == IterNth(it, 0)

\* DoubleEndedIterator::nth_back
IterNthBack(it, n) ==
    IF n < IterLen(it)
    THEN [iter |-> [it EXCEPT !.back = it.back - n - 1], item |-> it.base + it.back - n - 1]
    ELSE [iter |-> [it EXCEPT !.back = it.front], item |-> None]

\* ------------------------------------------------------------------------
\* Generic path: impl StepByImpl<I> for StepBy<I>
\* An adapter is [iter, step, first_take]; every operation returns the
\* adapter after the call, the returned item, and the arguments of the
\* inner.nth / inner.nth_back calls it made, in order.
\* ------------------------------------------------------------------------

\* spec_next without the first_take case: the first pull skips too
spec_next_skip_first(a) ==
    LET step_size == a.step
        r == IterNth(a.iter, step_size)
    IN  [a |-> [a EXCEPT !.first_take = FALSE, !.iter = r.iter],
         item |-> r.item,
         calls |-> <<step_size>>]

\* spec_next passing the stride, not the stored stride - 1, to inner.nth
spec_next_by_stride(a) ==
    LET step_size == IF a.first_take THEN 0 ELSE a.step + 1
        r == IterNth(a.iter, step_size)
    IN  [a |-> [a EXCEPT !.first_take = FALSE, !.iter = r.iter],
         item |-> r.item,
         calls |-> <<step_size>>]

spec_next(a) ==
    LET step_size == IF a.first_take THEN 0 ELSE a.step
        r == IterNth(a.iter, step_size)
    IN  [a |-> [a EXCEPT !.first_take = FALSE, !.iter = r.iter],
         item |-> r.item,
         calls |-> <<step_size>>]

\* first_size / other_size of spec_size_hint
\* first_size without the `- 1`
first_size_no_dec(step, n) == IF n = 0 THEN 0 ELSE 1 + n \div (step + 1)

first_size(step, n) == IF n = 0 THEN 0 ELSE 1 + (n - 1) \div (step + 1)

\* other_size rounding up
other_size_round_up(step, n) == (n + step) \div (step + 1)

other_size(step, n) == n \div (step + 1)

\* spec_size_hint, given the inner's size_hint (low, high); high may be None
spec_size_hint(a, low, high) ==
    IF a.first_take
    THEN [low |-> first_size(a.step, low),
          high |-> IF high = None THEN None ELSE first_size(a.step, high)]
    ELSE [low |-> other_size(a.step, low),
          high |-> IF high = None THEN None ELSE other_size(a.step, high)]

\* the loop with the partial skip called as inner.nth(nth), not nth - 1
RECURSIVE nth_loop_skip_extra(_, _, _, _)
nth_loop_skip_extra(a, n, step, calls) ==
    LET mul == checked_mul(n, step) IN
    IF likely(mul # None)
    THEN LET r == IterNth(a.iter, wrapping_sub(mul, 1))
         IN  [a |-> [a EXCEPT !.iter = r.iter],
              item |-> r.item,
              calls |-> Append(calls, wrapping_sub(mul, 1))]
    ELSE LET div_n == MAX \div n
             div_step == MAX \div step
             nth_n == wrapping_mul(div_n, n)
             nth_step == wrapping_mul(div_step, step)
             nth == IF nth_n > nth_step THEN nth_n ELSE nth_step
             step2 == IF nth_n > nth_step THEN wrapping_sub(step, div_n) ELSE step
             n2 == IF nth_n > nth_step THEN n ELSE wrapping_sub(n, div_step)
             r == IterNth(a.iter, nth)
         IN  nth_loop_skip_extra([a EXCEPT !.iter = r.iter], n2, step2, Append(calls, nth))

\* the loop shrinking self.step itself instead of the local copy
RECURSIVE nth_loop_store_step(_, _, _, _)
nth_loop_store_step(a, n, step, calls) ==
    LET mul == checked_mul(n, step) IN
    IF likely(mul # None)
    THEN LET r == IterNth(a.iter, wrapping_sub(mul, 1))
         IN  [a |-> [a EXCEPT !.iter = r.iter],
              item |-> r.item,
              calls |-> Append(calls, wrapping_sub(mul, 1))]
    ELSE LET div_n == MAX \div n
             div_step == MAX \div step
             nth_n == wrapping_mul(div_n, n)
             nth_step == wrapping_mul(div_step, step)
             nth == IF nth_n > nth_step THEN nth_n ELSE nth_step
             step2 == IF nth_n > nth_step THEN wrapping_sub(step, div_n) ELSE step
             n2 == IF nth_n > nth_step THEN n ELSE wrapping_sub(n, div_step)
             r == IterNth(a.iter, wrapping_sub(nth, 1))
         IN  nth_loop_store_step([a EXCEPT !.iter = r.iter, !.step = wrapping_sub(step2, 1)],
                                 n2, step2, Append(calls, wrapping_sub(nth, 1)))

\* the overflow-handling loop of spec_nth; n and step are the locals
RECURSIVE nth_loop(_, _, _, _)
nth_loop(a, n, step, calls) ==
    LET mul == checked_mul(n, step) IN
    IF likely(mul # None)
    THEN LET r == IterNth(a.iter, wrapping_sub(mul, 1))
         IN  [a |-> [a EXCEPT !.iter = r.iter],
              item |-> r.item,
              calls |-> Append(calls, wrapping_sub(mul, 1))]
    ELSE LET div_n == MAX \div n
             div_step == MAX \div step
             nth_n == wrapping_mul(div_n, n)
             nth_step == wrapping_mul(div_step, step)
             nth == IF nth_n > nth_step THEN nth_n ELSE nth_step
             step2 == IF nth_n > nth_step THEN wrapping_sub(step, div_n) ELSE step
             n2 == IF nth_n > nth_step THEN n ELSE wrapping_sub(n, div_step)
             r == IterNth(a.iter, wrapping_sub(nth, 1))
         IN  nth_loop([a EXCEPT !.iter = r.iter], n2, step2,
                      Append(calls, wrapping_sub(nth, 1)))

\* nth_skip adding 1 to n without the `n == usize::MAX` check
nth_skip_always_inc(a, n, calls) ==
    LET step == wrapping_add(a.step, 1) IN
    nth_loop(a, wrapping_add(n, 1), step, calls)

\* spec_nth after the first_take block: n is the (already decremented) local
nth_skip(a, n, calls) ==
    LET step == wrapping_add(a.step, 1) IN
    IF n = MAX
    THEN LET r == IterNth(a.iter, wrapping_sub(step, 1))
         IN  nth_loop([a EXCEPT !.iter = r.iter], n, step,
                      Append(calls, wrapping_sub(step, 1)))
    ELSE nth_loop(a, wrapping_add(n, 1), step, calls)

\* spec_nth without `self.first_take = false`
spec_nth_keep_flag(a, n) ==
    IF a.first_take
    THEN LET first == IterNext(a.iter)
             a1 == [a EXCEPT !.iter = first.iter]
         IN  IF n = 0
             THEN [a |-> a1, item |-> first.item, calls |-> <<0>>]
             ELSE nth_skip(a1, wrapping_sub(n, 1), <<0>>)
    ELSE nth_skip(a, n, <<>>)

\* spec_nth without `n -= 1` after taking the first item
spec_nth_no_dec(a, n) ==
    IF a.first_take
    THEN LET first == IterNext(a.iter)
             a1 == [a EXCEPT !.first_take = FALSE, !.iter = first.iter]
         IN  IF n = 0
             THEN [a |-> a1, item |-> first.item, calls |-> <<0>>]
             ELSE nth_skip(a1, n, <<0>>)
    ELSE nth_skip(a, n, <<>>)

spec_nth(a, n) ==
    IF a.first_take
    THEN LET first == IterNext(a.iter)
             a1 == [a EXCEPT !.first_take = FALSE, !.iter = first.iter]
         IN  IF n = 0
             THEN [a |-> a1, item |-> first.item, calls |-> <<0>>]
             ELSE nth_skip(a1, wrapping_sub(n, 1), <<0>>)
    ELSE nth_skip(a, n, <<>>)

\* The locals of spec_nth in unbounded integers.
\* nth_loop_entry: n and step as the loop is entered, and the argument of the
\* inner.nth call made before it (pre); enters is FALSE when spec_nth
\* returns the first item.
nth_loop_entry(a, n) ==
    IF a.first_take /\ n = 0
    THEN [enters |-> FALSE, n |-> 0, step |-> a.step + 1, pre |-> <<>>]
    ELSE LET n1 == IF a.first_take THEN n - 1 ELSE n
             step == a.step + 1
         IN  IF n1 = MAX
             THEN [enters |-> TRUE, n |-> n1, step |-> step, pre |-> <<step - 1>>]
             ELSE [enters |-> TRUE, n |-> n1 + 1, step |-> step, pre |-> <<>>]

\* the most iterations followed through the loop
LoopFuel == 2 * MAX + 2

\* the loop with `step -= div_n` and `n -= div_step` left out
RECURSIVE nth_loop_locals_no_dec(_, _, _)
nth_loop_locals_no_dec(n, step, fuel) ==
    IF fuel = 0
    THEN <<>>
    ELSE IF n * step <= MAX
         THEN <<[n |-> n, step |-> step, over |-> FALSE, div_n |-> 0, div_step |-> 0,
                 nth_n |-> 0, nth_step |-> 0, n2 |-> n, step2 |-> step,
                 minuend |-> n * step, arg |-> n * step - 1]>>
         ELSE LET div_n == MAX \div n
                  div_step == MAX \div step
                  nth_n == div_n * n
                  nth_step == div_step * step
                  nth == IF nth_n > nth_step THEN nth_n ELSE nth_step
              IN  <<[n |-> n, step |-> step, over |-> TRUE, div_n |-> div_n,
                     div_step |-> div_step, nth_n |-> nth_n, nth_step |-> nth_step,
                     n2 |-> n, step2 |-> step, minuend |-> nth, arg |-> nth - 1]>>
                  \o nth_loop_locals_no_dec(n, step, fuel - 1)

\* one record per iteration of the loop entered with locals n and step: the
\* locals, whether n * step overflows, every intermediate, the locals after
\* the iteration (n2, step2) and the argument of its inner.nth call
\* (minuend - 1); at most fuel iterations are followed
RECURSIVE nth_loop_locals(_, _, _)
nth_loop_locals(n, step, fuel) ==
    IF fuel = 0
    THEN <<>>
    ELSE IF n * step <= MAX
         THEN <<[n |-> n, step |-> step, over |-> FALSE, div_n |-> 0, div_step |-> 0,
                 nth_n |-> 0, nth_step |-> 0, n2 |-> n, step2 |-> step,
                 minuend |-> n * step, arg |-> n * step - 1]>>
         ELSE LET div_n == MAX \div n
                  div_step == MAX \div step
                  nth_n == div_n * n
                  nth_step == div_step * step
                  nth == IF nth_n > nth_step THEN nth_n ELSE nth_step
                  step2 == IF nth_n > nth_step THEN step - div_n ELSE step
                  n2 == IF nth_n > nth_step THEN n ELSE n - div_step
              IN  <<[n |-> n, step |-> step, over |-> TRUE, div_n |-> div_n,
                     div_step |-> div_step, nth_n |-> nth_n, nth_step |-> nth_step,
                     n2 |-> n2, step2 |-> step2, minuend |-> nth, arg |-> nth - 1]>>
                  \o nth_loop_locals(n2, step2, fuel - 1)

\* next_back_index without the first_take case
next_back_index_rem(a) == IterLen(a.iter) % (a.step + 1)

\* next_back_index with the two cases of first_take exchanged
next_back_index_swapped(a) ==
    LET rem == IterLen(a.iter) % (a.step + 1) IN
    IF a.first_take
    THEN rem
    ELSE (IF rem = 0 THEN a.step ELSE rem - 1)

\* StepBy::next_back_index (I: ExactSizeIterator)
next_back_index(a) ==
    LET rem == IterLen(a.iter) % (a.step + 1) IN
    IF a.first_take
    THEN (IF rem = 0 THEN a.step ELSE rem - 1)
    ELSE rem

\* spec_next_back stepping by self.step instead of next_back_index()
spec_next_back_by_step(a) ==
    LET r == IterNthBack(a.iter, a.step)
    IN  [a |-> [a EXCEPT !.iter = r.iter], item |-> r.item, calls |-> <<a.step>>]

\* Generic path: impl StepByBackImpl<I> for StepBy<I>
spec_next_back(a) ==
    LET r == IterNthBack(a.iter, next_back_index(a))
    IN  [a |-> [a EXCEPT !.iter = r.iter],
         item |-> r.item,
         calls |-> <<next_back_index(a)>>]

\* spec_nth_back with wrapping instead of saturating arithmetic
spec_nth_back_wrapping(a, n) ==
    LET m == wrapping_add(wrapping_mul(n, a.step + 1), next_back_index(a))
        r == IterNthBack(a.iter, m)
    IN  [a |-> [a EXCEPT !.iter = r.iter], item |-> r.item, calls |-> <<m>>]

spec_nth_back(a, n) ==
    LET m == saturating_add(saturating_mul(n, a.step + 1), next_back_index(a))
        r == IterNthBack(a.iter, m)
    IN  [a |-> [a EXCEPT !.iter = r.iter], item |-> r.item, calls |-> <<m>>]

\* from_fn(nth(&mut self.iter, self.step)).try_fold(acc, f): inner.nth(step)
\* until None; the closure f short-circuits on its j-th call (never if j = 0).
\* visited lists the items f was called on; val is the item f broke on.
RECURSIVE from_fn_try_fold(_, _, _)
from_fn_try_fold(a, visited, j) ==
    LET r == IterNth(a.iter, a.step)
        a1 == [a EXCEPT !.iter = r.iter]
        v == Append(visited, r.item)
    IN  IF r.item = None
        THEN [a |-> a1, visited |-> visited, brk |-> FALSE, val |-> None]
        ELSE IF Len(v) = j
             THEN [a |-> a1, visited |-> v, brk |-> TRUE, val |-> r.item]
             ELSE from_fn_try_fold(a1, v, j)

\* spec_try_fold with `acc = f(acc, x)` on the first item, without the `?`
spec_try_fold_first_unchecked(a, j) ==
    IF a.first_take
    THEN LET r == IterNext(a.iter)
             a1 == [a EXCEPT !.first_take = FALSE, !.iter = r.iter]
         IN  IF r.item = None
             THEN [a |-> a1, visited |-> <<>>, brk |-> FALSE, val |-> None]
             ELSE from_fn_try_fold(a1, <<r.item>>, j)
    ELSE from_fn_try_fold(a, <<>>, j)

spec_try_fold(a, j) ==
    IF a.first_take
    THEN LET r == IterNext(a.iter)
             a1 == [a EXCEPT !.first_take = FALSE, !.iter = r.iter]
         IN  IF r.item = None
             THEN [a |-> a1, visited |-> <<>>, brk |-> FALSE, val |-> None]
             ELSE IF j = 1
                  THEN [a |-> a1, visited |-> <<r.item>>, brk |-> TRUE, val |-> r.item]
                  ELSE from_fn_try_fold(a1, <<r.item>>, j)
    ELSE from_fn_try_fold(a, <<>>, j)

\* the fold over from_fn pulling inner.next() instead of inner.nth(step)
RECURSIVE from_fn_fold_by_next(_, _)
from_fn_fold_by_next(a, visited) ==
    LET r == IterNext(a.iter)
        a1 == [a EXCEPT !.iter = r.iter]
    IN  IF r.item = None
        THEN [a |-> a1, visited |-> visited]
        ELSE from_fn_fold_by_next(a1, Append(visited, r.item))

\* from_fn(nth(&mut self.iter, self.step)).fold(acc, f)
RECURSIVE from_fn_fold(_, _)
from_fn_fold(a, visited) ==
    LET r == IterNth(a.iter, a.step)
        a1 == [a EXCEPT !.iter = r.iter]
    IN  IF r.item = None
        THEN [a |-> a1, visited |-> visited]
        ELSE from_fn_fold(a1, Append(visited, r.item))

\* spec_fold takes self by value: a is the local adapter when it returns
spec_fold(a) ==
    IF a.first_take
    THEN LET r == IterNext(a.iter)
             a1 == [a EXCEPT !.first_take = FALSE, !.iter = r.iter]
         IN  IF r.item = None
             THEN [a |-> a1, visited |-> <<>>]
             ELSE from_fn_fold(a1, <<r.item>>)
    ELSE from_fn_fold(a, <<>>)

\* the reverse try_fold over from_fn pulling inner.nth_back(0)
RECURSIVE from_fn_try_rfold_by_next_back(_, _, _)
from_fn_try_rfold_by_next_back(a, visited, j) ==
    LET r == IterNthBack(a.iter, 0)
        a1 == [a EXCEPT !.iter = r.iter]
        v == Append(visited, r.item)
    IN  IF r.item = None
        THEN [a |-> a1, visited |-> visited, brk |-> FALSE, val |-> None]
        ELSE IF Len(v) = j
             THEN [a |-> a1, visited |-> v, brk |-> TRUE, val |-> r.item]
             ELSE from_fn_try_rfold_by_next_back(a1, v, j)

\* from_fn(nth_back(&mut self.iter, self.step)).try_fold(acc, f):
\* inner.nth_back(step) until None; f short-circuits on its j-th call
RECURSIVE from_fn_try_rfold(_, _, _)
from_fn_try_rfold(a, visited, j) ==
    LET r == IterNthBack(a.iter, a.step)
        a1 == [a EXCEPT !.iter = r.iter]
        v == Append(visited, r.item)
    IN  IF r.item = None
        THEN [a |-> a1, visited |-> visited, brk |-> FALSE, val |-> None]
        ELSE IF Len(v) = j
             THEN [a |-> a1, visited |-> v, brk |-> TRUE, val |-> r.item]
             ELSE from_fn_try_rfold(a1, v, j)

\* spec_try_rfold clearing first_take as the forward fold does
spec_try_rfold_clears_flag(a, j) ==
    LET r == spec_next_back(a)
        a1 == [r.a EXCEPT !.first_take = FALSE]
    IN  IF r.item = None
        THEN [a |-> a1, visited |-> <<>>, brk |-> FALSE, val |-> None]
        ELSE IF j = 1
             THEN [a |-> a1, visited |-> <<r.item>>, brk |-> TRUE, val |-> r.item]
             ELSE from_fn_try_rfold(a1, <<r.item>>, j)

spec_try_rfold(a, j) ==
    LET r == spec_next_back(a)
    IN  IF r.item = None
        THEN [a |-> r.a, visited |-> <<>>, brk |-> FALSE, val |-> None]
        ELSE IF j = 1
             THEN [a |-> r.a, visited |-> <<r.item>>, brk |-> TRUE, val |-> r.item]
             ELSE from_fn_try_rfold(r.a, <<r.item>>, j)

\* from_fn(nth_back(&mut self.iter, self.step)).fold(acc, f)
RECURSIVE from_fn_rfold(_, _)
from_fn_rfold(a, visited) ==
    LET r == IterNthBack(a.iter, a.step)
        a1 == [a EXCEPT !.iter = r.iter]
    IN  IF r.item = None
        THEN [a |-> a1, visited |-> visited]
        ELSE from_fn_rfold(a1, Append(visited, r.item))

\* spec_rfold takes self by value: a is the local adapter when it returns
spec_rfold(a) ==
    LET r == spec_next_back(a)
    IN  IF r.item = None
        THEN [a |-> r.a, visited |-> <<>>]
        ELSE from_fn_rfold(r.a, <<r.item>>)

\* ------------------------------------------------------------------------
\* Specialized path: spec_int_ranges! / spec_int_ranges_r! for Range<$t>.
\* t is <$t>::MAX; the adapter's iter is the Range [start, end], whose end
\* field is turned into the count of items still to yield.
\* ------------------------------------------------------------------------

\* Range<$t>::size_hint().0: the exact length, 0 for an empty or inverted range
range_len(r) == IF r.start < r.end THEN r.end - r.start ELSE 0

\* `x as $t` of a usize: truncation to the low bits of $t
as_t(t, x) == x % (t + 1)

\* <$t>::wrapping_add
t_wrapping_add(t, a, b) == (a + b) % (t + 1)

\* `+` and `*` of $t as compiled without overflow checks: the low bits of $t
t_add(t, a, b) == (a + b) % (t + 1)

t_mul(t, a, b) == (a * b) % (t + 1)

\* setup keeping the length of the range as the count
setup_keep_len(t, r, step) ==
    LET inner_len == range_len(r)
    IN  [r EXCEPT !.end = as_t(t, inner_len)]

\* setup with a rounding-down division for the count
setup_div_floor(t, r, step) ==
    LET inner_len == range_len(r)
        yield_count == inner_len \div step
    IN  [r EXCEPT !.end = as_t(t, yield_count)]

\* setup taking the length as end - start without the emptiness test
setup_wrapping_len(t, r, step) ==
    LET inner_len == (r.end + (t + 1) - r.start) % (t + 1)
        yield_count == div_ceil(inner_len, step)
    IN  [r EXCEPT !.end = as_t(t, yield_count)]

\* SpecRangeSetup<Range<$t>>::setup
setup(t, r, step) ==
    LET inner_len == range_len(r)
        yield_count == div_ceil(inner_len, step)
    IN  [r EXCEPT !.end = as_t(t, yield_count)]

\* the step of spec_next taken with `as $t` instead of try_from
try_from_step_truncating(t, a) == as_t(t, a.step + 1)

\* <$t>::try_from(self.step + 1).unwrap_or(<$t>::MAX)
try_from_step(t, a) == IF a.step + 1 <= t THEN a.step + 1 ELSE t

\* range_spec_next without `self.iter.end = remaining - 1`
range_spec_next_keep_count(t, a) ==
    LET step == try_from_step(t, a)
        remaining == a.iter.end
    IN  IF remaining > 0
        THEN LET val == a.iter.start
             IN  [a |-> [a EXCEPT !.iter = [start |-> t_wrapping_add(t, val, step),
                                            end |-> remaining]],
                  item |-> val]
        ELSE [a |-> a, item |-> None]

\* range_spec_next without the `remaining > 0` test
range_spec_next_unguarded(t, a) ==
    LET step == try_from_step(t, a)
        remaining == a.iter.end
        val == a.iter.start
    IN  [a |-> [a EXCEPT !.iter = [start |-> t_wrapping_add(t, val, step),
                                   end |-> (remaining + t) % (t + 1)]],
         item |-> val]

\* range_spec_next returning the advanced start instead of the old one
range_spec_next_yields_advanced(t, a) ==
    LET step == try_from_step(t, a)
        remaining == a.iter.end
    IN  IF remaining > 0
        THEN LET val == t_wrapping_add(t, a.iter.start, step)
             IN  [a |-> [a EXCEPT !.iter = [start |-> val, end |-> remaining - 1]],
                  item |-> val]
        ELSE [a |-> a, item |-> None]

\* range_spec_next advancing start by one instead of by the stride
range_spec_next_unit_step(t, a) ==
    LET remaining == a.iter.end
    IN  IF remaining > 0
        THEN LET val == a.iter.start
             IN  [a |-> [a EXCEPT !.iter = [start |-> t_wrapping_add(t, val, 1),
                                            end |-> remaining - 1]],
                  item |-> val]
        ELSE [a |-> a, item |-> None]

range_spec_next(t, a) ==
    LET step == try_from_step(t, a)
        remaining == a.iter.end
    IN  IF remaining > 0
        THEN LET val == a.iter.start
             IN  [a |-> [a EXCEPT !.iter = [start |-> t_wrapping_add(t, val, step),
                                            end |-> remaining - 1]],
                  item |-> val]
        ELSE [a |-> a, item |-> None]

range_spec_size_hint(a) ==
    LET remaining == a.iter.end IN [low |-> remaining, high |-> remaining]

\* Iterator::advance_by (default): n calls of next, stopping at the first None
RECURSIVE advance_by(_, _, _)
advance_by(t, a, n) ==
    IF n = 0
    THEN [a |-> a, ok |-> TRUE]
    ELSE LET r == range_spec_next(t, a)
         IN  IF r.item = None THEN [a |-> r.a, ok |-> FALSE] ELSE advance_by(t, r.a, n - 1)

range_spec_nth(t, a, n) ==
    LET adv == advance_by(t, a, n)
    IN  IF ~adv.ok THEN [a |-> adv.a, item |-> None] ELSE range_spec_next(t, adv.a)

\* `while let Some(x) = self.next() { accum = f(accum, x)?; }`
RECURSIVE range_try_fold_loop(_, _, _, _)
range_try_fold_loop(t, a, visited, j) ==
    LET r == range_spec_next(t, a)
        v == Append(visited, r.item)
    IN  IF r.item = None
        THEN [a |-> r.a, visited |-> visited, brk |-> FALSE, val |-> None]
        ELSE IF Len(v) = j
             THEN [a |-> r.a, visited |-> v, brk |-> TRUE, val |-> r.item]
             ELSE range_try_fold_loop(t, r.a, v, j)

range_spec_try_fold(t, a, j) == range_try_fold_loop(t, a, <<>>, j)

\* `for _ in 0..remaining { acc = f(acc, val); val = val.wrapping_add(step); }`
\* the loop of spec_fold advancing val before handing it to the closure
RECURSIVE range_fold_loop_advance_first(_, _, _, _, _)
range_fold_loop_advance_first(t, val, step, left, visited) ==
    IF left = 0
    THEN visited
    ELSE LET v == t_wrapping_add(t, val, step)
         IN  range_fold_loop_advance_first(t, v, step, left - 1, Append(visited, v))

RECURSIVE range_fold_loop(_, _, _, _, _)
range_fold_loop(t, val, step, left, visited) ==
    IF left = 0
    THEN visited
    ELSE range_fold_loop(t, t_wrapping_add(t, val, step), step, left - 1, Append(visited, val))

\* spec_fold of the specialization: self is taken by value and not written
range_spec_fold(t, a) ==
    LET step == try_from_step(t, a)
        remaining == a.iter.end
    IN  [a |-> a, visited |-> range_fold_loop(t, a.iter.start, step, remaining, <<>>)]

\* range_spec_next_back computing start + step * remaining
range_spec_next_back_off_by_one(t, a) ==
    LET step == as_t(t, a.step + 1)
        remaining == a.iter.end
    IN  IF remaining > 0
        THEN LET start == a.iter.start
             IN  [a |-> [a EXCEPT !.iter.end = remaining - 1],
                  item |-> t_add(t, start, t_mul(t, step, remaining))]
        ELSE [a |-> a, item |-> None]

\* range_spec_next_back moving start as the forward pull does
range_spec_next_back_moves_start(t, a) ==
    LET step == as_t(t, a.step + 1)
        remaining == a.iter.end
    IN  IF remaining > 0
        THEN LET start == a.iter.start
             IN  [a |-> [a EXCEPT !.iter = [start |-> t_add(t, start, step),
                                            end |-> remaining - 1]],
                  item |-> t_add(t, start, t_mul(t, step, remaining - 1))]
        ELSE [a |-> a, item |-> None]

\* range_spec_next_back without the `remaining > 0` test
range_spec_next_back_unguarded(t, a) ==
    LET step == as_t(t, a.step + 1)
        remaining == a.iter.end
        start == a.iter.start
    IN  [a |-> [a EXCEPT !.iter.end = (remaining + t) % (t + 1)],
         item |-> t_add(t, start, t_mul(t, step, (remaining + t) % (t + 1)))]

range_spec_next_back(t, a) ==
    LET step == as_t(t, a.step + 1)
        remaining == a.iter.end
    IN  IF remaining > 0
        THEN LET start == a.iter.start
             IN  [a |-> [a EXCEPT !.iter.end = remaining - 1],
                  item |-> t_add(t, start, t_mul(t, step, remaining - 1))]
        ELSE [a |-> a, item |-> None]

\* DoubleEndedIterator::advance_back_by (default)
RECURSIVE advance_back_by(_, _, _)
advance_back_by(t, a, n) ==
    IF n = 0
    THEN [a |-> a, ok |-> TRUE]
    ELSE LET r == range_spec_next_back(t, a)
         IN  IF r.item = None THEN [a |-> r.a, ok |-> FALSE] ELSE advance_back_by(t, r.a, n - 1)

range_spec_nth_back(t, a, n) ==
    LET adv == advance_back_by(t, a, n)
    IN  IF ~adv.ok THEN [a |-> adv.a, item |-> None] ELSE range_spec_next_back(t, adv.a)

\* `while let Some(x) = self.next_back() { accum = f(accum, x)?; }`
RECURSIVE range_try_rfold_loop(_, _, _, _)
range_try_rfold_loop(t, a, visited, j) ==
    LET r == range_spec_next_back(t, a)
        v == Append(visited, r.item)
    IN  IF r.item = None
        THEN [a |-> r.a, visited |-> visited, brk |-> FALSE, val |-> None]
        ELSE IF Len(v) = j
             THEN [a |-> r.a, visited |-> v, brk |-> TRUE, val |-> r.item]
             ELSE range_try_rfold_loop(t, r.a, v, j)

range_spec_try_rfold(t, a, j) == range_try_rfold_loop(t, a, <<>>, j)

\* spec_rfold of the specialization: next_back on the local adapter until None
range_spec_rfold(t, a) ==
    LET r == range_try_rfold_loop(t, a, <<>>, 0)
    IN  [a |-> r.a, visited |-> r.visited]

\* ------------------------------------------------------------------------
\* The arithmetic of the hot path, in unbounded integers: every intermediate
\* value an operation computes, and every divisor it divides by.
\* ------------------------------------------------------------------------

\* first_size(step)(n): n - 1, step + 1, the quotient and 1 + quotient
first_size_values(step, n) ==
    IF n = 0 THEN {} ELSE {n - 1, step + 1, (n - 1) \div (step + 1), 1 + (n - 1) \div (step + 1)}

\* other_size(step)(n): step + 1 and the quotient
other_size_values(step, n) == {step + 1, n \div (step + 1)}

\* generic spec_size_hint on an inner hint n
spec_size_hint_values(a, n) ==
    IF a.first_take THEN first_size_values(a.step, n) ELSE other_size_values(a.step, n)

\* the divisors of generic spec_size_hint on an inner hint n, as usize
spec_size_hint_divisors(a, n) ==
    IF a.first_take /\ n = 0 THEN {} ELSE {wrapping_add(a.step, 1)}

\* specialized spec_next: self.step + 1 (usize) and remaining - 1 ($t)
range_spec_next_values(a) ==
    [word |-> {a.step + 1},
     t |-> IF a.iter.end > 0 THEN {a.iter.end - 1} ELSE {}]

\* ------------------------------------------------------------------------
\* StepBy::new
\* ------------------------------------------------------------------------

\* the Range<$t> start..end as the inner iterator of the generic path
RangeIter(r) == [base |-> r.start, front |-> 0, back |-> range_len(r)]

\* new without `assert!(step != 0)`
new_unasserted(iter, step) ==
    [ok |-> TRUE, a |-> [iter |-> iter, step |-> wrapping_sub(step, 1), first_take |-> TRUE]]

\* new storing the stride itself in the step field
new_keep_stride(iter, step) ==
    IF step # 0
    THEN [ok |-> TRUE, a |-> [iter |-> iter, step |-> step, first_take |-> TRUE]]
    ELSE [ok |-> FALSE, a |-> [iter |-> iter, step |-> 0, first_take |-> TRUE]]

\* new over an inner without specialization: the default setup returns inner
new(iter, step) ==
    IF step # 0
    THEN [ok |-> TRUE, a |-> [iter |-> iter, step |-> step - 1, first_take |-> TRUE]]
    ELSE [ok |-> FALSE, a |-> [iter |-> iter, step |-> 0, first_take |-> TRUE]]

\* new over Range<$t>: setup turns the range end into the counter
range_new(t, r, step) ==
    IF step # 0
    THEN [ok |-> TRUE, a |-> [iter |-> setup(t, r, step), step |-> step - 1, first_take |-> TRUE]]
    ELSE [ok |-> FALSE, a |-> [iter |-> r, step |-> 0, first_take |-> TRUE]]

\* ------------------------------------------------------------------------
\* Unique<T>: a NonNull<T> the holder owns. A raw pointer is its address
\* (0 is the null pointer); a Unique is [pointer, ty], ty the pointee type.
\* ------------------------------------------------------------------------

MaxAddr == 12

ValBits == 2

\* the pointee types of the proofs: i32 and the cast target u32
Types == {"i32", "u32"}

\* the bit patterns of a value
Bits == 0..(2 ^ ValBits - 1)

\* raw pointer values, null included
Ptrs == 0..MaxAddr

\* mem::align_of::<T>(), the same for i32 and u32
align_of(ty) == 4

\* addresses where a live T is stored: aligned and apart from the dangling one
Allocated == {a \in Ptrs : a % align_of("i32") = 0 /\ a > align_of("i32")}

\* the value of type ty a bit pattern stands for (two's complement for i32)
decode(ty, bits) ==
    IF ty = "i32" /\ bits >= 2 ^ (ValBits - 1) THEN bits - 2 ^ ValBits ELSE bits

\* `x as U` between integers of the same width
as_cast(ty, x) == decode(ty, x % (2 ^ ValBits))

\* `*r` for a reference r = [addr, ty] in memory m
deref(m, r) == decode(r.ty, m[r.addr])

\* <*mut T>::is_null
is_null(ptr) == ptr = 0

\* NonNull::new: Some exactly for a non-null pointer
non_null_new(ptr) == [some |-> ~is_null(ptr), pointer |-> ptr]

\* NonNull::new_unchecked: wraps the pointer as it is
non_null_new_unchecked(ptr) == ptr

\* NonNull::dangling: the alignment of T as an address
non_null_dangling(ty) == align_of(ty)

\* NonNull::as_ptr
non_null_as_ptr(pointer) == pointer

\* NonNull::cast: the same address at another type
non_null_cast(pointer) == pointer

\* NonNull::from(&mut T): the address of the referent
non_null_from(reference) == reference

\* NonNull::as_ref / NonNull::as_mut: a reference to the address pointed to
non_null_as_ref(pointer, ty) == [addr |-> pointer, ty |-> ty]

\* the absence of a Unique (None of Option<Unique<T>>)
NoUnique == [pointer |-> 0, ty |-> "none"]

\* dangling built on a null pointer
dangling_null(ty) == [pointer |-> 0, ty |-> ty]

\* dangling at the lowest non-null address, whatever the alignment of T
dangling_unaligned(ty) == [pointer |-> 1, ty |-> ty]

dangling(ty) == [pointer |-> non_null_dangling(ty), ty |-> ty]

\* new_unchecked ignoring its argument
new_unchecked_dangling(ty, ptr) == [pointer |-> non_null_dangling(ty), ty |-> ty]

new_unchecked(ty, ptr) == [pointer |-> non_null_new_unchecked(ptr), ty |-> ty]

\* Unique::new returning None for every pointer
unique_new_none(ty, ptr) == [some |-> FALSE, u |-> NoUnique]

\* Unique::new
unique_new(ty, ptr) ==
    LET p == non_null_new(ptr) IN
    IF p.some
    THEN [some |-> TRUE, u |-> [pointer |-> p.pointer, ty |-> ty]]
    ELSE [some |-> FALSE, u |-> NoUnique]

as_ptr(u) == non_null_as_ptr(u.pointer)

\* as_non_null_ptr returning a fresh dangling pointer
as_non_null_ptr_dangling(u) == non_null_dangling(u.ty)

as_non_null_ptr(u) == u.pointer

\* as_ref borrowing the first allocation, whatever the pointer
as_ref_first_slot(u) == non_null_as_ref(2 * align_of(u.ty), u.ty)

as_ref(u) == non_null_as_ref(u.pointer, u.ty)

as_mut(u) == non_null_as_ref(u.pointer, u.ty)

\* cast realigning the pointer for U
cast_dangling(u, U) == [pointer |-> non_null_dangling(U), ty |-> U]

cast(u, U) == [pointer |-> non_null_cast(u.pointer), ty |-> U]

\* Clone::clone: `*self`
clone(u) == u

\* From<NonNull<T>>
from_non_null(ty, pointer) == [pointer |-> pointer, ty |-> ty]

\* From<&mut T>
from_mut(ty, reference) == from_non_null(ty, non_null_from(reference))

\* ------------------------------------------------------------------------
\* State
\* ------------------------------------------------------------------------

VARIABLES
    phase,   \* "new" before StepBy::new is called, then "built" or "panicked";
             \* "consumed" once the adapter was moved into fold
    inner,   \* the iterator handed to new: [kind, t, start, end]
    stride,  \* the step argument of new (None before the call)
    g,       \* the StepBy of the generic path
    s,       \* the StepBy<Range<$t>> of the specialized path (kind "range")
    last,    \* the last call: [op, n, first (first_take before it), g, s, calls]
    hint,    \* the last size_hint call: [op, exact, g, s]
    fwd,     \* items returned by next so far, oldest first
    bwd,     \* items returned by next_back so far, oldest first
    folded,  \* the last try_fold / fold call: [op, j, g, s]
    mem,     \* memory: the bit pattern stored at each allocated address
    origin,  \* the pointer the Unique in uniq was built from: [addr, ty]
    uniq,    \* the Unique value in hand: [pointer, ty]
    ulast    \* the last Unique call: [op, arg, ty, some, ret, mem], with the
             \* pointer and type before the call and the memory before it

vars == <<phase, inner, stride, g, s, last, hint, fwd, bwd, folded, mem, origin, uniq, ulast>>

\* the state of the Unique<T> component
ptrVars == <<mem, origin, uniq, ulast>>

\* the state of the StepBy component
stepVars == <<phase, inner, stride, g, s, last, hint, fwd, bwd, folded>>

\* inner iterators: a Range<$t> of each specialized type (empty and inverted
\* ranges included), or a sequence of `end` items that is not a range
Inners ==
    {[kind |-> "range", t |-> t, start |-> a, end |-> b] :
        <<t, a, b>> \in {x \in TypeMaxes \X (0..MAX) \X (0..MAX) : x[2] <= x[1] /\ x[3] <= x[1]}}
    \cup {[kind |-> "seq", t |-> 0, start |-> 0, end |-> l] : l \in 0..MaxLen}

\* the inner is an ExactSizeIterator + DoubleEndedIterator
Exact == inner.kind = "range" \/ inner.end <= MAX

\* the inner as the generic path sees it
GenericIter(i) ==
    IF i.kind = "range"
    THEN RangeIter([start |-> i.start, end |-> i.end])
    ELSE [base |-> 0, front |-> 0, back |-> i.end]

NoAdapter == [iter |-> [start |-> 0, end |-> 0], step |-> 0, first_take |-> TRUE]

NoGeneric == [iter |-> [base |-> 0, front |-> 0, back |-> 0], step |-> 0, first_take |-> TRUE]

NoCall == [op |-> "none", n |-> 0, first |-> FALSE, g |-> None, s |-> None, calls |-> <<>>]

NoHint == [op |-> "none", exact |-> FALSE,
           g |-> [low |-> 0, high |-> None], s |-> [low |-> 0, high |-> None]]

NoFoldResult == [visited |-> <<>>, brk |-> FALSE, val |-> None]

NoFold == [op |-> "none", j |-> 0, first |-> FALSE, g |-> NoFoldResult, s |-> NoFoldResult]

Ranged == inner.kind = "range"

\* no pointer was handed to a constructor of Unique
NoOrigin == [addr |-> 0, ty |-> "none"]

\* no method of Unique was called
NoUniqueCall == [op |-> "none", arg |-> 0, ty |-> "none", some |-> FALSE, ret |-> 0, mem |-> <<>>]

\* no Unique is in play
PtrIdle ==
    /\ mem = <<>>
    /\ origin = NoOrigin
    /\ uniq = NoUnique
    /\ ulast = NoUniqueCall

Init ==
    /\ phase = "new"
    /\ inner \in Inners
    /\ stride = None
    /\ g = NoGeneric
    /\ s = NoAdapter
    /\ last = NoCall
    /\ hint = NoHint
    /\ fwd = <<>>
    /\ bwd = <<>>
    /\ folded = NoFold
    /\ PtrIdle

\* StepBy::new(iter, step): panics on step = 0
New(step) ==
    /\ phase = "new"
    /\ stride' = step
    /\ LET gn == new(GenericIter(inner), step)
           sn == range_new(inner.t, [start |-> inner.start, end |-> inner.end], step)
       IN  /\ phase' = IF gn.ok THEN "built" ELSE "panicked"
           /\ g' = IF gn.ok THEN gn.a ELSE g
           /\ s' = IF Ranged /\ sn.ok THEN sn.a ELSE s
    /\ UNCHANGED <<inner, last, hint, fwd, bwd, folded, ptrVars>>

\* Iterator::next on both paths
CallNext ==
    /\ phase = "built"
    /\ LET gr == spec_next(g)
           sr == range_spec_next(inner.t, s)
       IN  /\ g' = gr.a
           /\ s' = IF Ranged THEN sr.a ELSE s
           /\ last' = [op |-> "next", n |-> 0, first |-> g.first_take, g |-> gr.item,
                       s |-> IF Ranged THEN sr.item ELSE None, calls |-> gr.calls]
    /\ hint' = NoHint
    /\ folded' = NoFold
    /\ UNCHANGED <<phase, inner, stride, fwd, bwd, ptrVars>>

\* Iterator::nth(n) on both paths
CallNth(n) ==
    /\ phase = "built"
    /\ LET gr == spec_nth(g, n)
           sr == range_spec_nth(inner.t, s, n)
       IN  /\ g' = gr.a
           /\ s' = IF Ranged THEN sr.a ELSE s
           /\ last' = [op |-> "nth", n |-> n, first |-> g.first_take, g |-> gr.item,
                       s |-> IF Ranged THEN sr.item ELSE None, calls |-> gr.calls]
    /\ hint' = NoHint
    /\ folded' = NoFold
    /\ UNCHANGED <<phase, inner, stride, fwd, bwd, ptrVars>>

\* DoubleEndedIterator::next_back on both paths
CallNextBack ==
    /\ phase = "built"
    /\ Exact
    /\ LET gr == spec_next_back(g)
           sr == range_spec_next_back(inner.t, s)
       IN  /\ g' = gr.a
           /\ s' = IF Ranged THEN sr.a ELSE s
           /\ last' = [op |-> "next_back", n |-> 0, first |-> g.first_take, g |-> gr.item,
                       s |-> IF Ranged THEN sr.item ELSE None, calls |-> gr.calls]
    /\ hint' = NoHint
    /\ folded' = NoFold
    /\ UNCHANGED <<phase, inner, stride, fwd, bwd, ptrVars>>

\* DoubleEndedIterator::nth_back(n) on both paths
CallNthBack(n) ==
    /\ phase = "built"
    /\ Exact
    /\ LET gr == spec_nth_back(g, n)
           sr == range_spec_nth_back(inner.t, s, n)
       IN  /\ g' = gr.a
           /\ s' = IF Ranged THEN sr.a ELSE s
           /\ last' = [op |-> "nth_back", n |-> n, first |-> g.first_take, g |-> gr.item,
                       s |-> IF Ranged THEN sr.item ELSE None, calls |-> gr.calls]
    /\ hint' = NoHint
    /\ folded' = NoFold
    /\ UNCHANGED <<phase, inner, stride, fwd, bwd, ptrVars>>

\* the (low, high) pairs the inner's size_hint may return: exact for an
\* ExactSizeIterator, otherwise any pair that brackets the remaining length
InnerHints ==
    IF Exact
    THEN {<<IterLen(g.iter), IterLen(g.iter)>>}
    ELSE {h \in (0..MAX) \X ({None} \cup (0..MAX)) :
            /\ h[1] <= IterLen(g.iter)
            /\ h[2] # None => IterLen(g.iter) <= h[2]}

\* Iterator::size_hint on both paths
CallSizeHint ==
    /\ phase = "built"
    /\ \E h \in InnerHints :
          hint' = [op |-> "size_hint", exact |-> h[1] = h[2],
                   g |-> spec_size_hint(g, h[1], h[2]),
                   s |-> IF Ranged THEN range_spec_size_hint(s) ELSE NoHint.s]
    /\ UNCHANGED <<phase, inner, stride, g, s, last, fwd, bwd, folded, ptrVars>>

\* Iterator::try_fold on both paths, with a closure that short-circuits on
\* its j-th call (j = 0: never)
CallTryFold(j) ==
    /\ phase = "built"
    /\ LET gr == spec_try_fold(g, j)
           sr == range_spec_try_fold(inner.t, s, j)
       IN  /\ g' = gr.a
           /\ s' = IF Ranged THEN sr.a ELSE s
           /\ folded' = [op |-> "try_fold", j |-> j, first |-> g.first_take,
                         g |-> [visited |-> gr.visited, brk |-> gr.brk, val |-> gr.val],
                         s |-> IF Ranged
                               THEN [visited |-> sr.visited, brk |-> sr.brk, val |-> sr.val]
                               ELSE NoFoldResult]
    /\ last' = NoCall
    /\ hint' = NoHint
    /\ UNCHANGED <<phase, inner, stride, fwd, bwd, ptrVars>>

\* Iterator::fold on both paths: the adapter is moved into the call; g and s
\* keep the local adapter as fold left it
CallFold ==
    /\ phase = "built"
    /\ phase' = "consumed"
    /\ LET gr == spec_fold(g)
           sr == range_spec_fold(inner.t, s)
       IN  /\ g' = gr.a
           /\ s' = IF Ranged THEN sr.a ELSE s
           /\ folded' = [op |-> "fold", j |-> 0, first |-> g.first_take,
                         g |-> [visited |-> gr.visited, brk |-> FALSE, val |-> None],
                         s |-> IF Ranged
                               THEN [visited |-> sr.visited, brk |-> FALSE, val |-> None]
                               ELSE NoFoldResult]
    /\ last' = NoCall
    /\ hint' = NoHint
    /\ UNCHANGED <<inner, stride, fwd, bwd, ptrVars>>

\* the calls on which the closure handed to try_fold may short-circuit
BreakAt == 0..(MAX + 1)

Next ==
    \/ \E step \in 0..MAX : New(step)
    \/ CallNext
    \/ \E n \in 0..MAX : CallNth(n)
    \/ CallNextBack
    \/ \E n \in 0..MAX : CallNthBack(n)
    \/ CallSizeHint

Spec == Init /\ [][Next]_vars

\* forward pulls of every kind, with next_back in between
NextFold ==
    \/ \E step \in 0..MAX : New(step)
    \/ CallNext
    \/ \E n \in 0..MAX : CallNth(n)
    \/ CallNextBack
    \/ \E j \in BreakAt : CallTryFold(j)
    \/ CallFold

SpecFold == Init /\ [][NextFold]_vars

\* forward pulls with next and nth only
NextNth ==
    \/ \E step \in 0..MAX : New(step)
    \/ CallNext
    \/ \E n \in 0..MAX : CallNth(n)

SpecNth == Init /\ [][NextNth]_vars

\* DoubleEndedIterator::try_rfold on both paths; the closure short-circuits
\* on its j-th call (never if j = 0)
CallTryRfold(j) ==
    /\ phase = "built"
    /\ Exact
    /\ LET gr == spec_try_rfold(g, j)
           sr == range_spec_try_rfold(inner.t, s, j)
       IN  /\ g' = gr.a
           /\ s' = IF Ranged THEN sr.a ELSE s
           /\ folded' = [op |-> "try_rfold", j |-> j, first |-> g.first_take,
                         g |-> [visited |-> gr.visited, brk |-> gr.brk, val |-> gr.val],
                         s |-> IF Ranged
                               THEN [visited |-> sr.visited, brk |-> sr.brk, val |-> sr.val]
                               ELSE NoFoldResult]
    /\ last' = NoCall
    /\ hint' = NoHint
    /\ UNCHANGED <<phase, inner, stride, fwd, bwd, ptrVars>>

\* DoubleEndedIterator::rfold on both paths: the adapter is moved into the
\* call; g and s keep the local adapter as rfold left it
CallRfold ==
    /\ phase = "built"
    /\ Exact
    /\ phase' = "consumed"
    /\ LET gr == spec_rfold(g)
           sr == range_spec_rfold(inner.t, s)
       IN  /\ g' = gr.a
           /\ s' = IF Ranged THEN sr.a ELSE s
           /\ folded' = [op |-> "rfold", j |-> 0, first |-> g.first_take,
                         g |-> [visited |-> gr.visited, brk |-> FALSE, val |-> None],
                         s |-> IF Ranged
                               THEN [visited |-> sr.visited, brk |-> FALSE, val |-> None]
                               ELSE NoFoldResult]
    /\ last' = NoCall
    /\ hint' = NoHint
    /\ UNCHANGED <<inner, stride, fwd, bwd, ptrVars>>

\* reverse pulls and reverse folds, with next in between
NextRfold ==
    \/ \E step \in 0..MAX : New(step)
    \/ CallNext
    \/ CallNextBack
    \/ \E n \in 0..MAX : CallNthBack(n)
    \/ \E j \in BreakAt : CallTryRfold(j)
    \/ CallRfold

SpecRfold == Init /\ [][NextRfold]_vars

\* ------------------------------------------------------------------------
\* Pulling an adapter to exhaustion from both ends, keeping what it returned
\* ------------------------------------------------------------------------

\* next on both paths, recorded; the caller stops pulling forward at None
Pull ==
    /\ phase = "built"
    /\ \A i \in 1..Len(fwd) : fwd[i].g # None
    /\ LET gr == spec_next(g)
           sr == range_spec_next(inner.t, s)
           si == IF Ranged THEN sr.item ELSE None
       IN  /\ g' = gr.a
           /\ s' = IF Ranged THEN sr.a ELSE s
           /\ last' = [op |-> "next", n |-> 0, first |-> g.first_take, g |-> gr.item, s |-> si, calls |-> gr.calls]
           /\ fwd' = Append(fwd, [g |-> gr.item, s |-> si])
    /\ UNCHANGED <<phase, inner, stride, hint, bwd, folded, ptrVars>>

\* next_back on both paths, recorded; the caller stops pulling back at None
PullBack ==
    /\ phase = "built"
    /\ Exact
    /\ \A i \in 1..Len(bwd) : bwd[i].g # None
    /\ LET gr == spec_next_back(g)
           sr == range_spec_next_back(inner.t, s)
           si == IF Ranged THEN sr.item ELSE None
       IN  /\ g' = gr.a
           /\ s' = IF Ranged THEN sr.a ELSE s
           /\ last' = [op |-> "next_back", n |-> 0, first |-> g.first_take, g |-> gr.item, s |-> si, calls |-> gr.calls]
           /\ bwd' = Append(bwd, [g |-> gr.item, s |-> si])
    /\ UNCHANGED <<phase, inner, stride, hint, fwd, folded, ptrVars>>

PullNext ==
    \/ \E step \in 0..MAX : New(step)
    \/ Pull
    \/ PullBack

SpecPull == Init /\ [][PullNext]_vars

\* ------------------------------------------------------------------------
\* Unique<T> over a memory holding a value at each allocated address
\* ------------------------------------------------------------------------

\* no StepBy is in play
StepIdle ==
    /\ phase = "new"
    /\ inner = [kind |-> "seq", t |-> 0, start |-> 0, end |-> 0]
    /\ stride = None
    /\ g = NoGeneric
    /\ s = NoAdapter
    /\ last = NoCall
    /\ hint = NoHint
    /\ fwd = <<>>
    /\ bwd = <<>>
    /\ folded = NoFold

\* any value x at each allocation (kani::any()), no Unique built yet
InitUnique ==
    /\ StepIdle
    /\ mem \in [Allocated -> Bits]
    /\ origin = NoOrigin
    /\ uniq = NoUnique
    /\ ulast = NoUniqueCall

\* the record of a call on uniq
UniqueCall(op, some, ret) ==
    [op |-> op, arg |-> uniq.pointer, ty |-> uniq.ty, some |-> some, ret |-> ret, mem |-> mem]

\* Unique::new(ptr) for any raw pointer
UNew(ty, ptr) ==
    /\ LET r == unique_new(ty, ptr)
       IN  /\ uniq' = r.u
           /\ ulast' = [op |-> "new", arg |-> ptr, ty |-> ty, some |-> r.some,
                        ret |-> IF r.some THEN as_ptr(r.u) ELSE 0, mem |-> mem]
    /\ origin' = [addr |-> ptr, ty |-> ty]
    /\ UNCHANGED <<mem, stepVars>>

\* Unique::new_unchecked(ptr) under #[requires(!ptr.is_null())]
UNewUnchecked(ty, ptr) ==
    /\ ~is_null(ptr)
    /\ uniq' = new_unchecked(ty, ptr)
    /\ ulast' = [op |-> "new_unchecked", arg |-> ptr, ty |-> ty, some |-> TRUE,
                 ret |-> as_ptr(new_unchecked(ty, ptr)), mem |-> mem]
    /\ origin' = [addr |-> ptr, ty |-> ty]
    /\ UNCHANGED <<mem, stepVars>>

\* Unique::dangling()
UDangling(ty) ==
    /\ uniq' = dangling(ty)
    /\ ulast' = [op |-> "dangling", arg |-> 0, ty |-> ty, some |-> TRUE,
                 ret |-> as_ptr(dangling(ty)), mem |-> mem]
    /\ origin' = NoOrigin
    /\ UNCHANGED <<mem, stepVars>>

\* Unique::from(&mut x) for a live x
UFromMut(ty, reference) ==
    /\ reference \in Allocated
    /\ uniq' = from_mut(ty, reference)
    /\ ulast' = [op |-> "from_mut", arg |-> reference, ty |-> ty, some |-> TRUE,
                 ret |-> as_ptr(from_mut(ty, reference)), mem |-> mem]
    /\ origin' = [addr |-> reference, ty |-> ty]
    /\ UNCHANGED <<mem, stepVars>>

\* Unique::from(NonNull<T>): the argument is non-null by its type
UFromNonNull(ty, pointer) ==
    /\ ~is_null(pointer)
    /\ uniq' = from_non_null(ty, pointer)
    /\ ulast' = [op |-> "from_non_null", arg |-> pointer, ty |-> ty, some |-> TRUE,
                 ret |-> as_ptr(from_non_null(ty, pointer)), mem |-> mem]
    /\ origin' = [addr |-> pointer, ty |-> ty]
    /\ UNCHANGED <<mem, stepVars>>

\* unique.clone(), the copy taken as the value in hand
UClone ==
    /\ uniq # NoUnique
    /\ uniq' = clone(uniq)
    /\ ulast' = UniqueCall("clone", TRUE, as_ptr(clone(uniq)))
    /\ UNCHANGED <<mem, origin, stepVars>>

\* unique.cast::<U>()
UCast(U) ==
    /\ uniq # NoUnique
    /\ uniq' = cast(uniq, U)
    /\ ulast' = UniqueCall("cast", TRUE, as_ptr(cast(uniq, U)))
    /\ UNCHANGED <<mem, origin, stepVars>>

\* unique.as_ptr()
UAsPtr ==
    /\ uniq # NoUnique
    /\ ulast' = UniqueCall("as_ptr", TRUE, as_ptr(uniq))
    /\ UNCHANGED <<mem, origin, uniq, stepVars>>

\* unique.as_non_null_ptr().as_ptr()
UAsNonNullPtr ==
    /\ uniq # NoUnique
    /\ ulast' = UniqueCall("as_non_null_ptr", TRUE, non_null_as_ptr(as_non_null_ptr(uniq)))
    /\ UNCHANGED <<mem, origin, uniq, stepVars>>

\* *unique.as_ref(), the pointer meeting the requirements of a reference
UAsRef ==
    /\ uniq # NoUnique
    /\ uniq.pointer \in DOMAIN mem
    /\ ulast' = UniqueCall("as_ref", TRUE, deref(mem, as_ref(uniq)))
    /\ UNCHANGED <<mem, origin, uniq, stepVars>>

\* *unique.as_mut(), the pointer meeting the requirements of a reference
UAsMut ==
    /\ uniq # NoUnique
    /\ uniq.pointer \in DOMAIN mem
    /\ ulast' = UniqueCall("as_mut", TRUE, deref(mem, as_mut(uniq)))
    /\ UNCHANGED <<mem, origin, uniq, stepVars>>

\* *unique.as_mut() = v, a store through the mutable borrow
UStore(bits) ==
    /\ uniq # NoUnique
    /\ uniq.pointer \in DOMAIN mem
    /\ mem' = [mem EXCEPT ![as_mut(uniq).addr] = bits]
    /\ ulast' = UniqueCall("store", TRUE, decode(uniq.ty, bits))
    /\ UNCHANGED <<origin, uniq, stepVars>>

NextUnique ==
    \/ \E ty \in Types, ptr \in Ptrs : UNew(ty, ptr)
    \/ \E ty \in Types, ptr \in Ptrs : UNewUnchecked(ty, ptr)
    \/ \E ty \in Types : UDangling(ty)
    \/ \E ty \in Types, reference \in Ptrs : UFromMut(ty, reference)
    \/ \E ty \in Types, pointer \in Ptrs : UFromNonNull(ty, pointer)
    \/ UClone
    \/ \E U \in Types : UCast(U)
    \/ UAsPtr
    \/ UAsNonNullPtr
    \/ UAsRef
    \/ UAsMut
    \/ \E bits \in Bits : UStore(bits)

SpecUnique == InitUnique /\ [][NextUnique]_vars

\* ------------------------------------------------------------------------
\* Reference sequences
\* ------------------------------------------------------------------------

\* number of items of the inner handed to new
InnerLen == IF Ranged THEN range_len([start |-> inner.start, end |-> inner.end]) ELSE inner.end

\* the items of the inner handed to new, in order
InnerItems == [j \in 1..InnerLen |-> inner.start + (j - 1)]

\* the inner items at indices 0, k, 2k, ... below the length, k = stride
Strided == [j \in 1..div_ceil(InnerLen, stride) |-> inner.start + (j - 1) * stride]

Reverse(q) == [j \in 1..Len(q) |-> q[Len(q) + 1 - j]]

IsSome(x) == x # None

\* the Some items of a recorded pull history, per path
ItemsG(h) == SelectSeq([j \in 1..Len(h) |-> h[j].g], IsSome)

ItemsS(h) == SelectSeq([j \in 1..Len(h) |-> h[j].s], IsSome)

\* the history ends with a None on the given path
EndedG(h) == Len(h) > 0 /\ h[Len(h)].g = None

EndedS(h) == Len(h) > 0 /\ h[Len(h)].s = None

\* next until None on a generic adapter: the items returned, in order
RECURSIVE CollectNext(_, _)
CollectNext(a, fuel) ==
    LET r == spec_next(a)
    IN  IF r.item = None \/ fuel = 0 THEN <<>> ELSE <<r.item>> \o CollectNext(r.a, fuel - 1)

\* next until None on a specialized adapter
RECURSIVE RangeCollectNext(_, _, _)
RangeCollectNext(t, a, fuel) ==
    LET r == range_spec_next(t, a)
    IN  IF r.item = None \/ fuel = 0 THEN <<>> ELSE <<r.item>> \o RangeCollectNext(t, r.a, fuel - 1)

\* more pulls than any modelled adapter can answer with Some
Fuel == MaxLen + MAX + 2

\* the adapters as new returned them
FreshG == new(GenericIter(inner), stride).a

FreshS == range_new(inner.t, [start |-> inner.start, end |-> inner.end], stride).a

\* ------------------------------------------------------------------------
\* Properties of pulling (specification SpecPull)
\* ------------------------------------------------------------------------

\* C1: generic path, forward pulls only on a fresh adapter: the i-th next
\* returns the inner item at index (i-1)*k while that index is below the
\* length and None after that; the first next calls inner.nth(0) and every
\* later one inner.nth(k-1).
C1_GenericNextYieldsStrided ==
    (phase = "built" /\ bwd = <<>>) =>
        /\ \A i \in 1..Len(fwd) :
              fwd[i].g = IF i <= Len(Strided) THEN Strided[i] ELSE None
        /\ Len(fwd) = 1 => last.calls = <<0>>
        /\ Len(fwd) > 1 => last.calls = <<stride - 1>>

C1_Witness ==
    /\ phase = "built" /\ bwd = <<>>
    /\ inner.kind = "seq" /\ inner.end = 10 /\ stride = 3
    /\ [j \in 1..Len(fwd) |-> fwd[j].g] = <<0, 3, 6, 9, None>>

\* C5: next_back until None on a fresh adapter over an exact-length inner,
\* reversed, is the list next until None gives on an identical fresh adapter
\* (generic path, and specialized path over ranges).
C5_ReverseConsistency ==
    (phase = "built" /\ fwd = <<>> /\ EndedG(bwd)) =>
        /\ Reverse(ItemsG(bwd)) = CollectNext(FreshG, Fuel)
        /\ Ranged => /\ EndedS(bwd)
                     /\ Reverse(ItemsS(bwd)) = RangeCollectNext(inner.t, FreshS, Fuel)

C5_Witness ==
    /\ phase = "built" /\ fwd = <<>> /\ EndedG(bwd) /\ EndedS(bwd)
    /\ Ranged /\ inner.t = MAX /\ inner.start = 0 /\ inner.end = MAX /\ stride = 2
    /\ Len(ItemsS(bwd)) = 2 /\ ItemsS(bwd)[2] = 0

\* C6: any interleaving of next and next_back run until both returned None:
\* the forward-pulled items followed by the reverse-pulled items in reverse
\* order are the full strided sequence, on both paths.
C6_Interleaving ==
    (phase = "built" /\ EndedG(fwd) /\ EndedG(bwd)) =>
        /\ ItemsG(fwd) \o Reverse(ItemsG(bwd)) = Strided
        /\ Ranged => /\ EndedS(fwd) /\ EndedS(bwd)
                     /\ ItemsS(fwd) \o Reverse(ItemsS(bwd)) = Strided

C6_Witness ==
    /\ phase = "built" /\ EndedG(fwd) /\ EndedG(bwd)
    /\ Ranged /\ inner.t = MAX /\ inner.start = 0 /\ inner.end = MAX /\ stride = 1
    /\ ItemsS(fwd) = <<0>> /\ Len(ItemsS(bwd)) = MAX - 1 /\ ItemsG(bwd)[1] = MAX - 1
    /\ fwd[1].g = 0 /\ bwd[1].g = MAX - 1 /\ Len(fwd) = 2

\* C9: with stride 1 the forward pulls are exactly the inner's items in
\* order and the reverse pulls exactly the inner's items reversed, on both
\* paths.
C9_StrideOneIdentity ==
    (phase = "built" /\ stride = 1) =>
        /\ (bwd = <<>> /\ EndedG(fwd)) =>
              /\ ItemsG(fwd) = InnerItems
              /\ Ranged => EndedS(fwd) /\ ItemsS(fwd) = InnerItems
        /\ (fwd = <<>> /\ EndedG(bwd)) =>
              /\ ItemsG(bwd) = Reverse(InnerItems)
              /\ Ranged => EndedS(bwd) /\ ItemsS(bwd) = Reverse(InnerItems)

C9_Witness ==
    /\ phase = "built" /\ stride = 1 /\ fwd = <<>> /\ EndedG(bwd) /\ EndedS(bwd)
    /\ Ranged /\ inner.start = 1 /\ inner.end = 3
    /\ ItemsS(bwd) = <<2, 1>> /\ ItemsG(bwd) = <<2, 1>>

\* ------------------------------------------------------------------------
\* Properties of the calls (specification Spec)
\* ------------------------------------------------------------------------

\* m consecutive next calls on a generic adapter: the adapter after them and
\* the item the last one returned
RECURSIVE RepeatNext(_, _)
RepeatNext(a, m) ==
    LET r == spec_next(a)
    IN  IF m <= 1 THEN [a |-> r.a, item |-> r.item] ELSE RepeatNext(r.a, m - 1)

RECURSIVE RangeRepeatNext(_, _, _)
RangeRepeatNext(t, a, m) ==
    LET r == range_spec_next(t, a)
    IN  IF m <= 1 THEN [a |-> r.a, item |-> r.item] ELSE RangeRepeatNext(t, r.a, m - 1)

\* next_back until None on a specialized adapter
RECURSIVE RangeCollectBack(_, _, _)
RangeCollectBack(t, a, fuel) ==
    LET r == range_spec_next_back(t, a)
    IN  IF r.item = None \/ fuel = 0 THEN <<>> ELSE <<r.item>> \o RangeCollectBack(t, r.a, fuel - 1)

\* inner items requested by a list of inner.nth calls: each skips c and takes one
RECURSIVE Requested(_)
Requested(calls) == IF calls = <<>> THEN 0 ELSE calls[1] + 1 + Requested(Tail(calls))

\* C2: over a Range<$t>, the specialized path and the generic path return
\* the same result at every next / next_back / nth / nth_back call.
C2_PathsEquivalent ==
    (phase = "built" /\ Ranged) => last.g = last.s

C2_Witness ==
    /\ phase = "built" /\ Ranged /\ inner.t = MAX /\ stride = 1
    /\ last.op = "nth_back" /\ last.n = 1 /\ ~last.first
    /\ last.s # None /\ last.g = last.s

\* C3: from every reachable state and for every n, nth(n) returns what the
\* last of n+1 consecutive next calls returns and leaves the adapter in the
\* same state, on the generic and on the specialized path.
C3_NthEqualsRepeatedNext ==
    phase = "built" =>
        \A n \in 0..MAX :
            /\ LET r == spec_nth(g, n) q == RepeatNext(g, n + 1)
               IN  r.item = q.item /\ r.a = q.a
            /\ Ranged =>
                  LET r == range_spec_nth(inner.t, s, n) q == RangeRepeatNext(inner.t, s, n + 1)
                  IN  r.item = q.item /\ r.a = q.a

C3_Witness ==
    /\ phase = "built" /\ Ranged /\ stride = 1 /\ inner.end - inner.start = MAX
    /\ last.op = "nth" /\ last.n = 1 /\ ~last.first
    /\ last.g = inner.start + 2 /\ last.s = last.g
    /\ g.iter.front = 3 /\ s.iter.start = g.iter.base + g.iter.front

\* C4: generic nth(n) requests from the inner, counted in unbounded
\* arithmetic, 1 + n*k items when first_take was set and (n+1)*k otherwise,
\* and returns the item at that distance (None when the inner is shorter); this for every n up to
\* MAX from every reachable state, and for the call just made.
C4_NthOverflowRobust ==
    phase = "built" =>
        /\ \A n \in 0..MAX :
              LET r == spec_nth(g, n)
                  total == IF g.first_take THEN 1 + n * (g.step + 1) ELSE (n + 1) * (g.step + 1)
              IN  /\ Requested(r.calls) = total
                  /\ r.item = IF total <= IterLen(g.iter)
                              THEN g.iter.base + g.iter.front + total - 1
                              ELSE None
        /\ last.op = "nth" =>
              Requested(last.calls) = IF last.first THEN 1 + last.n * stride
                                      ELSE (last.n + 1) * stride

C4_Witness ==
    /\ phase = "built" /\ inner.kind = "seq" /\ stride = MAX
    /\ last.op = "nth" /\ last.n = MAX /\ ~last.first
    /\ Len(last.calls) >= 3
    /\ last.g # None

\* the number of items a generic adapter will still yield through next
Remaining == Len(CollectNext(g, Fuel))

\* C7: generic size_hint brackets the number of items the adapter will still
\* yield, whatever bracketing pair the inner's size_hint returned, and both
\* bounds equal that number when the inner's hint is exact.
C7_GenericSizeHintSound ==
    (phase = "built" /\ hint.op = "size_hint") =>
        /\ hint.g.low <= Remaining
        /\ hint.g.high # None => Remaining <= hint.g.high
        /\ hint.exact => hint.g.low = Remaining /\ hint.g.high = Remaining

C7_Witness ==
    /\ phase = "built" /\ hint.op = "size_hint" /\ ~hint.exact
    /\ inner.kind = "seq" /\ stride = 2 /\ ~g.first_take
    /\ hint.g.low = 1 /\ hint.g.high = None /\ Remaining = 3

\* C8: on the specialized path size_hint is (inner.end, Some(inner.end)) and
\* inner.end is the number of items the adapter will still yield, from the
\* front as well as from the back, in every reachable state.
C8_RangeSizeHintExact ==
    (phase = "built" /\ Ranged) =>
        /\ hint.op = "size_hint" => hint.s.low = s.iter.end /\ hint.s.high = s.iter.end
        /\ range_spec_size_hint(s).low = Len(RangeCollectNext(inner.t, s, Fuel))
        /\ range_spec_size_hint(s).high = Len(RangeCollectBack(inner.t, s, Fuel))

C8_Witness ==
    /\ phase = "built" /\ Ranged /\ hint.op = "size_hint"
    /\ last.op = "nth_back" /\ ~g.first_take
    /\ hint.s.low = 1 /\ hint.s.high = 1 /\ s.iter.end = 1

ForwardPulled == last.op \in {"next", "nth"} \/ folded.op \in {"try_fold", "fold"}

\* no call other than size_hint was made on the adapters yet
Fresh == phase = "built" /\ last = NoCall /\ folded = NoFold

\* C11 as claimed: first_take is true on a fresh adapter and false after a
\* forward pull, on the generic and on the specialized adapter.
C11_FirstTakeClearedOnBothPaths ==
    /\ Fresh => g.first_take /\ (Ranged => s.first_take)
    /\ (phase \in {"built", "consumed"} /\ ForwardPulled) =>
          ~g.first_take /\ (Ranged => ~s.first_take)

\* C11: first_take is true on a fresh adapter; on the generic path a
\* forward pull (next, nth, try_fold, fold) leaves it false whether it
\* returned Some or None, and it is never set again; on the specialized path
\* the flag is never written and stays true.
C11_FirstTakeClearedGeneric ==
    /\ Fresh => g.first_take /\ (Ranged => s.first_take)
    /\ (phase \in {"built", "consumed"} /\ ForwardPulled) => ~g.first_take
    /\ (phase = "built" /\ ~g.first_take) =>
          \A n \in 0..MAX :
              /\ ~spec_next(g).a.first_take
              /\ ~spec_nth(g, n).a.first_take
              /\ ~spec_try_fold(g, n).a.first_take
              /\ ~spec_next_back(g).a.first_take
    /\ (phase \in {"built", "consumed"} /\ Ranged) => s.first_take

C11_Witness ==
    /\ phase = "built" /\ Ranged /\ InnerLen = 0
    /\ last.op = "next" /\ last.first /\ last.g = None /\ last.s = None
    /\ ~g.first_take /\ s.first_take

\* C12: from every reachable state, try_fold with a closure that
\* short-circuits on its j-th call returns the item the closure broke on,
\* has called the closure on exactly the first j items next would yield, and
\* leaves the adapter so that next returns the (j+1)-th; if fewer than j
\* items are left (or j = 0) every item is visited once in order. Both paths.
C12_TryFoldShortCircuit ==
    phase = "built" =>
        \A j \in BreakAt :
            /\ LET all == CollectNext(g, Fuel)
                   r == spec_try_fold(g, j)
               IN  IF 1 <= j /\ j <= Len(all)
                   THEN /\ r.brk /\ r.val = all[j]
                        /\ r.visited = SubSeq(all, 1, j)
                        /\ spec_next(r.a).item = IF j < Len(all) THEN all[j + 1] ELSE None
                   ELSE ~r.brk /\ r.val = None /\ r.visited = all
            /\ Ranged =>
                  LET all == RangeCollectNext(inner.t, s, Fuel)
                      r == range_spec_try_fold(inner.t, s, j)
                  IN  IF 1 <= j /\ j <= Len(all)
                      THEN /\ r.brk /\ r.val = all[j]
                           /\ r.visited = SubSeq(all, 1, j)
                           /\ range_spec_next(inner.t, r.a).item =
                                 IF j < Len(all) THEN all[j + 1] ELSE None
                      ELSE ~r.brk /\ r.val = None /\ r.visited = all

C12_Witness ==
    /\ phase = "built" /\ Ranged /\ stride = 1
    /\ folded.op = "try_fold" /\ folded.j = 2 /\ folded.first
    /\ folded.g.brk /\ folded.s.brk
    /\ folded.g.visited = <<inner.start, inner.start + 1>>
    /\ folded.s.val = inner.start + 1
    /\ spec_next(g).item = inner.start + 2
    /\ range_spec_next(inner.t, s).item = inner.start + 2

\* C13: in every reachable state the arithmetic of generic size_hint (on
\* every inner hint) and of specialized next stays within its integer type
\* and never divides by zero: step + 1 is in 1..MAX, n - 1 and remaining - 1
\* are computed only from positive values.
C13_HotPathNoOverflow ==
    phase = "built" =>
        /\ \A n \in 0..MAX :
              /\ spec_size_hint_values(g, n) \subseteq 0..MAX
              /\ 0 \notin spec_size_hint_divisors(g, n)
        /\ Ranged =>
              /\ range_spec_next_values(s).word \subseteq 1..MAX
              /\ range_spec_next_values(s).t \subseteq 0..inner.t

C13_Witness ==
    /\ phase = "built" /\ Ranged /\ stride = MAX
    /\ last.op = "next" /\ last.s # None /\ s.iter.end = 0
    /\ ~g.first_take /\ g.step + 1 = MAX
    /\ hint.op = "size_hint"

HasUnique == uniq # NoUnique

\* C15: Unique::new is total: for every raw pointer it returns None exactly
\* when the pointer is null, and otherwise Some(u) with u.as_ptr() equal to
\* the pointer passed in.
C15_NewTotal ==
    /\ \A ty \in Types, ptr \in Ptrs :
          LET r == unique_new(ty, ptr)
          IN  /\ ~r.some <=> is_null(ptr)
              /\ r.some => as_ptr(r.u) = ptr
    /\ ulast.op = "new" =>
          /\ ~ulast.some <=> is_null(ulast.arg)
          /\ ~ulast.some => ~HasUnique
          /\ ulast.some => HasUnique /\ as_ptr(uniq) = ulast.arg /\ ulast.ret = ulast.arg

C15_Witness ==
    /\ ulast.op = "new" /\ ulast.some /\ ulast.arg \in Allocated
    /\ HasUnique /\ as_ptr(uniq) = ulast.arg

\* C16: every Unique in hand, however obtained (new returning Some,
\* new_unchecked on a non-null pointer, dangling, From<&mut T>,
\* From<NonNull<T>>, clone, cast), holds a non-null pointer, and as_ptr never
\* returns null.
C16_NonNullInvariant ==
    /\ HasUnique => ~is_null(as_ptr(uniq)) /\ ~is_null(uniq.pointer)
    /\ ulast.op = "as_ptr" => ~is_null(ulast.ret)
    /\ \A ty \in Types : ~is_null(as_ptr(dangling(ty)))
    /\ HasUnique => \A U \in Types : ~is_null(as_ptr(cast(clone(uniq), U)))

C16_Witness ==
    /\ ulast.op = "as_ptr" /\ ulast.ret = align_of(uniq.ty)
    /\ origin = NoOrigin /\ HasUnique /\ uniq.ty = "u32"

\* C17: new_unchecked on a non-null pointer stores it unchanged: as_ptr of
\* the result is the pointer passed in.
C17_NewUncheckedRoundTrip ==
    /\ \A ty \in Types, ptr \in Ptrs \ {0} : as_ptr(new_unchecked(ty, ptr)) = ptr
    /\ ulast.op = "new_unchecked" =>
          /\ ~is_null(ulast.arg)
          /\ HasUnique /\ as_ptr(uniq) = ulast.arg /\ ulast.ret = ulast.arg
          /\ origin.addr = ulast.arg

C17_Witness ==
    /\ ulast.op = "new_unchecked" /\ ulast.arg \in Allocated /\ ulast.ty = "i32"
    /\ as_ptr(uniq) = ulast.arg

\* C18: cast::<U> keeps the address and reads or writes no memory; a read
\* through the cast pointer gives the value stored there converted with
\* `as U` (an i32 x read at u32 is x as u32).
C18_CastPreservesAddress ==
    ulast.op = "cast" =>
        /\ as_ptr(uniq) = ulast.arg
        /\ mem = ulast.mem
        /\ uniq.pointer \in DOMAIN mem =>
              LET x == deref(mem, [addr |-> ulast.arg, ty |-> ulast.ty])
              IN  deref(mem, as_ref(uniq)) = as_cast(uniq.ty, x)

C18_Witness ==
    /\ ulast.op = "cast" /\ ulast.ty = "i32" /\ uniq.ty = "u32"
    /\ uniq.pointer \in DOMAIN mem
    /\ deref(mem, [addr |-> ulast.arg, ty |-> "i32"]) < 0
    /\ deref(mem, as_ref(uniq)) > 0

\* C19: as_non_null_ptr returns a non-null pointer whose address is the one
\* as_ptr returns.
C19_AsNonNullPtrAgrees ==
    /\ HasUnique => non_null_as_ptr(as_non_null_ptr(uniq)) = as_ptr(uniq)
    /\ ulast.op = "as_non_null_ptr" =>
          /\ ~is_null(ulast.ret)
          /\ ulast.ret = as_ptr(uniq)

C19_Witness ==
    /\ ulast.op = "as_non_null_ptr" /\ ulast.ret \in Allocated
    /\ ulast.ret = as_ptr(uniq)

\* C20: for a Unique built from a valid pointer to a value x and still at
\* the type of x, the value read through as_ref or as_mut is x, and the
\* borrow changes neither the memory nor the stored address.
C20_BorrowReadsPointee ==
    (/\ ulast.op \in {"as_ref", "as_mut"}
     /\ origin.addr \in DOMAIN mem
     /\ uniq.ty = origin.ty) =>
        /\ ulast.ret = decode(origin.ty, mem[origin.addr])
        /\ mem = ulast.mem
        /\ as_ptr(uniq) = ulast.arg /\ as_ptr(uniq) = origin.addr

C20_Witness ==
    /\ ulast.op = "as_mut" /\ origin.addr \in DOMAIN mem /\ uniq.ty = origin.ty
    /\ origin.ty = "i32" /\ ulast.ret < 0
    /\ \E a \in DOMAIN mem : mem[a] # mem[origin.addr]

\* C21: dangling() returns a Unique whose address is non-null and a multiple
\* of align_of::<T>(), for every pointee type.
C21_DanglingAligned ==
    /\ \A ty \in Types :
          /\ ~is_null(as_ptr(dangling(ty)))
          /\ as_ptr(dangling(ty)) % align_of(ty) = 0
    /\ ulast.op = "dangling" =>
          /\ HasUnique /\ ~is_null(as_ptr(uniq))
          /\ as_ptr(uniq) % align_of(uniq.ty) = 0
          /\ ulast.ret = as_ptr(uniq)

C21_Witness ==
    /\ ulast.op = "dangling" /\ ulast.ty = "i32" /\ uniq.ty = "i32"
    /\ as_ptr(uniq) = align_of("i32") /\ as_ptr(uniq) \notin DOMAIN mem

\* ------------------------------------------------------------------------
\* The overflow loop of generic nth (specification SpecNth)
\* ------------------------------------------------------------------------

\* the iterations of the loop of nth(n) called in the current state
LoopOf(n) ==
    LET e == nth_loop_entry(g, n)
    IN  IF e.enters THEN nth_loop_locals(e.n, e.step, LoopFuel) ELSE <<>>

\* the arguments of the inner calls of nth(n) called in the current state,
\* in unbounded integers (the first item is taken with next, recorded as 0)
ArgsOf(n) ==
    LET e == nth_loop_entry(g, n)
        T == LoopOf(n)
    IN  (IF g.first_take THEN <<0>> ELSE <<>>) \o e.pre \o [i \in 1..Len(T) |-> T[i].arg]

\* C22: in every reachable state and for every n, the loop of generic nth is
\* entered with n and step in 1..MAX and ends in the non-overflowing branch;
\* on every iteration where n * step overflows, div_n < step and
\* div_step < n, exactly one of n and step strictly decreases and both stay
\* >= 1 (no underflow, no zero divisor). The calls the adapter makes are one
\* per iteration.
C22_NthLoopTerminates ==
    phase = "built" =>
        \A n \in 0..MAX :
            LET e == nth_loop_entry(g, n)
                T == LoopOf(n)
            IN  e.enters =>
                    /\ e.n \in 1..MAX /\ e.step \in 1..MAX
                    /\ Len(T) >= 1 /\ ~T[Len(T)].over
                    /\ \A i \in 1..(Len(T) - 1) :
                          /\ T[i].over
                          /\ T[i].n >= 1 /\ T[i].step >= 1
                          /\ T[i].div_n < T[i].step /\ T[i].div_step < T[i].n
                          /\ \/ T[i].n2 < T[i].n /\ T[i].step2 = T[i].step
                             \/ T[i].step2 < T[i].step /\ T[i].n2 = T[i].n
                          /\ T[i].n2 >= 1 /\ T[i].step2 >= 1
                    /\ Len(spec_nth(g, n).calls) = Len(ArgsOf(n))

C22_Witness ==
    /\ phase = "built" /\ stride = MAX /\ ~last.first
    /\ last.op = "nth" /\ last.n = MAX
    /\ Len(last.calls) >= 4

\* C23: in every reachable state and for every n, every argument generic nth
\* passes to inner.nth is computed without wrapping and lies in 0..MAX - 1:
\* each minuend (mul, nth_n or nth_step, the pre-skip step) is >= 1, and
\* div_n * n and div_step * step are at most MAX. The adapter, computing in
\* usize, passes exactly these arguments.
C23_NthArgumentsInRange ==
    phase = "built" =>
        \A n \in 0..MAX :
            LET e == nth_loop_entry(g, n)
                T == LoopOf(n)
            IN  /\ \A i \in 1..Len(ArgsOf(n)) : ArgsOf(n)[i] \in 0..(MAX - 1)
                /\ \A i \in 1..Len(e.pre) : e.step >= 1 /\ e.pre[i] = e.step - 1
                /\ \A i \in 1..Len(T) :
                      /\ T[i].minuend \in 1..MAX
                      /\ T[i].nth_n \in 0..MAX /\ T[i].nth_step \in 0..MAX
                /\ spec_nth(g, n).calls = ArgsOf(n)

C23_Witness ==
    /\ phase = "built" /\ stride = 2 /\ last.first
    /\ last.op = "nth" /\ last.n = MAX
    /\ last.calls = <<0, MAX - 1, MAX - 1>>

\* ------------------------------------------------------------------------
\* The Range specialization step by step (specification SpecPull)
\* ------------------------------------------------------------------------

\* ceil(len / k) in unbounded integers: the least c with c * k >= len
CeilDiv(len, k) == CHOOSE c \in 0..len : c * k >= len /\ (c = 0 \/ (c - 1) * k < len)

\* C24: right after construction over a range of an unsigned type T with
\* stride k >= 1, the specialized adapter's inner.end is ceil(len / k), len
\* being end - start or 0 when end <= start, and inner.start is the range
\* start; the count fits in T: it is at most len <= T::MAX when
\* k <= T::MAX and at most 1 when k > T::MAX.
C24_SetupCount ==
    (Fresh /\ Ranged) =>
        LET len == IF inner.start < inner.end THEN inner.end - inner.start ELSE 0
            count == CeilDiv(len, stride)
        IN  /\ stride >= 1
            /\ s.iter.start = inner.start
            /\ s.iter.end = count
            /\ count <= inner.t
            /\ stride <= inner.t => count <= len /\ len <= inner.t
            /\ stride > inner.t => count <= 1

C24_Witness ==
    /\ Fresh /\ Ranged /\ inner.t < MAX /\ stride > inner.t
    /\ InnerLen = inner.t /\ s.iter.end = 1 /\ hint.op = "none"

\* C25: in every reachable state of the specialization, next returns None
\* and changes nothing when inner.end = 0; otherwise it returns inner.start,
\* sets inner.start to start + min(k, T::MAX) wrapped in T and decrements
\* inner.end; the addition wraps only when the counter becomes 0, so the
\* wrapped start is never returned.
C25_RangeNextStep ==
    (phase = "built" /\ Ranged) =>
        LET t == inner.t
            k == IF stride < t THEN stride ELSE t
            r == range_spec_next(t, s)
        IN  IF s.iter.end = 0
            THEN r.item = None /\ r.a = s
            ELSE /\ r.item = s.iter.start
                 /\ r.a.iter.start = (s.iter.start + k) % (t + 1)
                 /\ r.a.iter.end = s.iter.end - 1
                 /\ r.a.step = s.step /\ r.a.first_take = s.first_take
                 /\ s.iter.start + k > t =>
                       /\ r.a.iter.end = 0
                       /\ range_spec_next(t, r.a).item = None
                       /\ range_spec_next_back(t, r.a).item = None

C25_Witness ==
    /\ phase = "built" /\ Ranged
    /\ last.op = "next" /\ last.s # None
    /\ s.iter.end = 0 /\ s.iter.start < last.s

\* C26: in every reachable state of the specialization, next_back leaves
\* inner.start (and step) alone and only decrements the counter inner.end
\* when it is > 0; the item returned is start + k * (counter - 1) of the
\* state it is called in, a value of T computed without overflow.
C26_RangeNextBackFrame ==
    (phase = "built" /\ Ranged) =>
        LET t == inner.t
            r == range_spec_next_back(t, s)
        IN  /\ r.a.iter.start = s.iter.start
            /\ r.a.step = s.step /\ r.a.first_take = s.first_take
            /\ IF s.iter.end > 0
               THEN /\ r.a.iter.end = s.iter.end - 1
                    /\ r.item = s.iter.start + stride * (s.iter.end - 1)
                    /\ r.item <= t
               ELSE r.item = None /\ r.a = s

C26_Witness ==
    /\ phase = "built" /\ Ranged /\ stride = 2
    /\ last.op = "next_back" /\ last.s = s.iter.start + stride * s.iter.end
    /\ s.iter.end = 1 /\ s.iter.start = inner.start

\* ------------------------------------------------------------------------
\* Reverse pulls on the generic path
\* ------------------------------------------------------------------------

\* the last result of m consecutive next_back calls on a generic adapter
RECURSIVE RepeatNextBack(_, _)
RepeatNextBack(a, m) ==
    LET r == spec_next_back(a)
    IN  IF m <= 1 THEN [a |-> r.a, item |-> r.item] ELSE RepeatNextBack(r.a, m - 1)

\* C27: in every reachable state over an exact-size inner and for every n,
\* generic nth_back(n) makes one inner.nth_back call, on
\* min(MAX, n * k + next_back_index), and returns the item and leaves the
\* adapter as n + 1 consecutive next_back calls do; when n * k +
\* next_back_index exceeds MAX the result is None and the inner is exhausted.
C27_NthBackSaturating ==
    (phase = "built" /\ Exact) =>
        \A n \in 0..MAX :
            LET want == n * (g.step + 1) + next_back_index(g)
                r == spec_nth_back(g, n)
                q == RepeatNextBack(g, n + 1)
            IN  /\ r.calls = <<IF want > MAX THEN MAX ELSE want>>
                /\ r.item = q.item /\ r.a = q.a
                /\ want > MAX => r.item = None /\ IterLen(r.a.iter) = 0

C27_Witness ==
    /\ phase = "built" /\ Exact /\ InnerLen = MAX /\ stride = 2
    /\ last.op = "nth_back" /\ last.first /\ last.n * stride > MAX
    /\ last.calls = <<MAX>> /\ last.g = None /\ IterLen(g.iter) = 0

\* C28 (specification SpecPull): over an inner of length 0 < len < k, once
\* next_back was called with no item pulled forward before it, the first
\* next_back returned the item at index 0, every later next_back and every
\* next returned None, and from then on next_back and next return None and
\* size_hint is (0, Some(0)); on both paths.
C28_ShortInnerReverse ==
    (/\ phase = "built" /\ Exact
     /\ 0 < InnerLen /\ InnerLen < stride
     /\ ItemsG(fwd) = <<>> /\ Len(bwd) >= 1) =>
        /\ bwd[1].g = inner.start
        /\ \A i \in 2..Len(bwd) : bwd[i].g = None
        /\ \A i \in 1..Len(fwd) : fwd[i].g = None
        /\ spec_next_back(g).item = None
        /\ spec_next(g).item = None
        /\ spec_size_hint(g, IterLen(g.iter), IterLen(g.iter)) = [low |-> 0, high |-> 0]
        /\ Ranged =>
              /\ bwd[1].s = inner.start
              /\ \A i \in 2..Len(bwd) : bwd[i].s = None
              /\ \A i \in 1..Len(fwd) : fwd[i].s = None
              /\ range_spec_next_back(inner.t, s).item = None
              /\ range_spec_next(inner.t, s).item = None
              /\ range_spec_size_hint(s) = [low |-> 0, high |-> 0]

C28_Witness ==
    /\ phase = "built" /\ Ranged /\ InnerLen = 2 /\ stride = 3
    /\ Len(bwd) = 2 /\ Len(fwd) = 1
    /\ bwd[1].g = inner.start /\ bwd[1].s = inner.start
    /\ bwd[2].g = None /\ fwd[1].g = None /\ fwd[1].s = None

\* C29 (specification SpecPull): over a non-empty range of T with a stride
\* of T::MAX or more, pulled forward only, the adapter yields the range
\* start and then None: exactly one element, on both paths.
C29_MaxStrideYieldsStart ==
    (/\ phase = "built" /\ Ranged
     /\ InnerLen > 0 /\ stride >= inner.t
     /\ bwd = <<>>) =>
        /\ Strided = <<inner.start>>
        /\ Len(fwd) <= 2
        /\ Len(fwd) = 0 =>
              /\ RangeCollectNext(inner.t, s, Fuel) = <<inner.start>>
              /\ CollectNext(g, Fuel) = <<inner.start>>
        /\ Len(fwd) >= 1 =>
              /\ fwd[1].s = inner.start /\ fwd[1].g = inner.start
              /\ range_spec_next(inner.t, s).item = None
              /\ spec_next(g).item = None
        /\ Len(fwd) = 2 => fwd[2].s = None /\ fwd[2].g = None

C29_Witness ==
    /\ phase = "built" /\ Ranged /\ inner.t = MAX /\ stride = MAX
    /\ InnerLen = MAX /\ bwd = <<>> /\ Len(fwd) = 2
    /\ fwd[1].s = inner.start /\ fwd[2].s = None

\* C30 (specification SpecNth): on an adapter over an empty inner, in every
\* reachable state, nth(MAX) returns None after a bounded number of inner
\* calls, and after it next and nth(m) for every m return None; on both
\* paths, and for the call just made.
C30_NthMaxOnEmpty ==
    (phase = "built" /\ InnerLen = 0) =>
        /\ LET r == spec_nth(g, MAX)
           IN  /\ r.item = None
               /\ Len(r.calls) <= LoopFuel + 2
               /\ spec_next(r.a).item = None
               /\ \A m \in 0..MAX : spec_nth(r.a, m).item = None
        /\ Ranged =>
              LET r == range_spec_nth(inner.t, s, MAX)
              IN  /\ r.item = None
                  /\ range_spec_next(inner.t, r.a).item = None
                  /\ \A m \in 0..MAX : range_spec_nth(inner.t, r.a, m).item = None
        /\ (last.op = "nth" /\ last.n = MAX) =>
              last.g = None /\ (Ranged => last.s = None)

C30_Witness ==
    /\ phase = "built" /\ Ranged /\ InnerLen = 0 /\ stride = MAX
    /\ last.op = "nth" /\ last.n = MAX /\ last.first
    /\ last.g = None /\ last.s = None /\ Len(last.calls) >= 3


\* C31: an adapter over an empty or inverted range (end <= start) yields
\* nothing for any stride >= 1: on the fresh adapter next and next_back
\* return None and size_hint is (0, Some(0)), on both paths, and the pulls the
\* caller made returned None.
C31_EmptyRangeYieldsNothing ==
    (phase = "built" /\ Ranged /\ inner.end <= inner.start) =>
        /\ spec_next(FreshG).item = None
        /\ spec_next_back(FreshG).item = None
        /\ range_spec_next(inner.t, FreshS).item = None
        /\ range_spec_next_back(inner.t, FreshS).item = None
        /\ LET len == IterLen(FreshG.iter)
           IN  spec_size_hint(FreshG, len, len) = [low |-> 0, high |-> 0]
        /\ range_spec_size_hint(FreshS) = [low |-> 0, high |-> 0]
        /\ \A i \in 1..Len(fwd) : fwd[i] = [g |-> None, s |-> None]
        /\ \A i \in 1..Len(bwd) : bwd[i] = [g |-> None, s |-> None]

\* next and next_back were both called on an adapter over an inverted range
C31_Witness ==
    /\ phase = "built"
    /\ Ranged
    /\ inner.end < inner.start
    /\ stride > 1
    /\ fwd = <<[g |-> None, s |-> None]>>
    /\ bwd = <<[g |-> None, s |-> None]>>


\* C32: from every reachable state, generic fold and generic try_fold with a
\* closure that never short-circuits hand the closure exactly the items that
\* repeated next would return from that state, in the same order: the first
\* is inner.next() when first_take is set, every further one is
\* inner.nth(step), until None. With first_take set and an empty inner the
\* closure is never called, so the initial accumulator is returned unchanged.
C32_FoldVisitsNextItems ==
    phase = "built" =>
        LET all == CollectNext(g, Fuel)
            f == spec_fold(g)
            tf == spec_try_fold(g, 0)
            head == IF g.first_take THEN IterNext(g.iter) ELSE IterNth(g.iter, g.step)
        IN  /\ f.visited = all
            /\ tf.visited = all /\ ~tf.brk /\ tf.val = None
            /\ tf.a = f.a
            /\ spec_next(f.a).item = None
            /\ IF head.item = None
               THEN f.visited = <<>>
               ELSE /\ f.visited[1] = head.item
                    /\ LET rest == from_fn_fold([g EXCEPT !.iter = head.iter,
                                                          !.first_take = FALSE], <<>>)
                       IN  f.visited = <<head.item>> \o rest.visited
            /\ (g.first_take /\ IterLen(g.iter) = 0) => f.visited = <<>>

\* fold ran on a fresh adapter of stride 2 over a sequence of five items and
\* handed the closure the items 0, 2, 4
C32_Witness ==
    /\ phase = "consumed"
    /\ inner.kind = "seq" /\ inner.end = 5 /\ stride = 2
    /\ folded.op = "fold" /\ folded.first
    /\ folded.g.visited = <<0, 2, 4>>


\* C39: from every reachable state, specialized fold, which iterates with its
\* own local value and counter, hands the closure exactly the items that
\* repeated specialized next would return from that state, in the same
\* order: start, start + k, ... for as many items as the counter in
\* inner.end says, none of them wrapped.
C39_RangeFoldVisitsNextItems ==
    ((phase = "built" \/ folded.op = "fold") /\ Ranged) =>
        LET f == range_spec_fold(inner.t, s)
        IN  /\ f.visited = RangeCollectNext(inner.t, s, Fuel)
            /\ Len(f.visited) = s.iter.end
            /\ \A i \in 1..Len(f.visited) :
                  /\ f.visited[i] = s.iter.start + (i - 1) * stride
                  /\ f.visited[i] <= inner.t
            /\ f.a = s
            /\ folded.op = "fold" => folded.s.visited = f.visited

\* specialized fold ran after one next on a range of stride 2 and handed the
\* closure the second and last item
C39_Witness ==
    /\ phase = "consumed"
    /\ Ranged /\ stride = 2 /\ inner.start = 0 /\ inner.end = 3
    /\ folded.op = "fold" /\ ~folded.first
    /\ folded.s.visited = <<2>>


\* C33: the arithmetic of specialized next_back never overflows. In every
\* state reached by any interleaving of next and next_back in which the
\* counter is > 0, the product (k as T) * (counter - 1), with the truncating
\* cast of k, and the sum start + product, both taken without wrapping, stay
\* within T; the sum is the item next_back returns and is the last element
\* the forward traversal would yield from that state. A stride above T::MAX
\* occurs only with a counter <= 1, where the product is 0.
C33_RangeNextBackNoOverflow ==
    (phase = "built" /\ Ranged /\ s.iter.end > 0) =>
        LET t == inner.t
            k == as_t(t, s.step + 1)
            product == k * (s.iter.end - 1)
            sum == s.iter.start + product
            all == RangeCollectNext(t, s, Fuel)
        IN  /\ product <= t
            /\ sum <= t
            /\ range_spec_next_back(t, s).item = sum
            /\ Len(all) = s.iter.end
            /\ sum = all[Len(all)]
            /\ sum = Strided[Len(Strided) - Len(ItemsS(bwd))]
            /\ stride > t => (s.iter.end <= 1 /\ product = 0)

\* after a next and a next_back on 0..3 by 1 the counter is still positive
C33_Witness ==
    /\ phase = "built" /\ Ranged /\ stride = 1
    /\ inner.start = 0 /\ inner.end = 3
    /\ Len(fwd) = 1 /\ Len(bwd) = 1
    /\ last.op = "next_back" /\ last.s = 2
    /\ s.iter.end = 1 /\ s.iter.start = 1


\* a value the adapter over start0..end0 with stride k may yield: start0 + i*k
\* for some 0 <= i < ceil(len0 / k), inside [start0, end0)
OnStride(v) ==
    /\ \E i \in 0..(CeilDiv(InnerLen, stride) - 1) : v = inner.start + i * stride
    /\ inner.start <= v /\ v < inner.end

\* C34: every value the specialized path yields, forward or backward and
\* after any interleaving of the two, has the form start0 + i * k with
\* 0 <= i < ceil(len0 / k) and lies in [start0, end0): a wrapped or
\* out-of-range value is never returned.
C34_RangeYieldsOnStride ==
    (phase = "built" /\ Ranged) =>
        /\ \A j \in 1..Len(fwd) : fwd[j].s # None => OnStride(fwd[j].s)
        /\ \A j \in 1..Len(bwd) : bwd[j].s # None => OnStride(bwd[j].s)
        /\ LET f == range_spec_next(inner.t, s).item
               b == range_spec_next_back(inner.t, s).item
           IN  /\ f # None => OnStride(f)
               /\ b # None => OnStride(b)

\* over 0..MAX of the widest type with stride 2 both items were pulled from
\* the front, the start field wrapped past MAX, and next_back returned None
C34_Witness ==
    /\ phase = "built" /\ Ranged /\ stride = 2
    /\ inner.t = MAX /\ inner.start = 0 /\ inner.end = MAX
    /\ ItemsS(fwd) = <<0, 2>>
    /\ s.iter.start = 0
    /\ bwd = <<[g |-> None, s |-> None]>>


\* the exact remaining length of a generic adapter over an exact-size inner
ExactLen(a) == spec_size_hint(a, IterLen(a.iter), IterLen(a.iter))

\* the effect of one pull on the exact remaining length: minus one on Some,
\* zero before and after on None
PullCounts(before, item, after) ==
    /\ before.low = before.high
    /\ after.low = after.high
    /\ IF item # None
       THEN after.low = before.low - 1
       ELSE before.low = 0 /\ after.low = 0

\* C35: in every state of an adapter over an exact-size inner (the generic
\* path, and the specialization over a range), a next or next_back that
\* returns Some decreases the exact remaining length reported by size_hint by
\* exactly one, and one that returns None leaves it at zero; so the length
\* is the number of strided items minus the Some pulls made so far.
C35_PullDecrementsLength ==
    (phase = "built" /\ Exact) =>
        /\ LET f == spec_next(g)
               b == spec_next_back(g)
           IN  /\ PullCounts(ExactLen(g), f.item, ExactLen(f.a))
               /\ PullCounts(ExactLen(g), b.item, ExactLen(b.a))
               /\ ExactLen(g).low =
                     Len(Strided) - Len(ItemsG(fwd)) - Len(ItemsG(bwd))
        /\ Ranged =>
              LET f == range_spec_next(inner.t, s)
                  b == range_spec_next_back(inner.t, s)
              IN  /\ PullCounts(range_spec_size_hint(s), f.item, range_spec_size_hint(f.a))
                  /\ PullCounts(range_spec_size_hint(s), b.item, range_spec_size_hint(b.a))
                  /\ range_spec_size_hint(s).low =
                        Len(Strided) - Len(ItemsS(fwd)) - Len(ItemsS(bwd))

\* a next and then a next_back, both returning Some, took the length of a
\* two-item adapter of stride 2 from 2 to 0
C35_Witness ==
    /\ phase = "built" /\ Exact /\ stride = 2
    /\ Len(Strided) = 2
    /\ Len(ItemsG(fwd)) = 1 /\ Len(ItemsG(bwd)) = 1
    /\ last.op = "next_back" /\ last.g # None /\ ~last.first
    /\ ExactLen(g) = [low |-> 0, high |-> 0]


\* the generic adapters of the current stride over the current range,
\* drained at any position
DrainedGeneric ==
    {[iter |-> [base |-> inner.start, front |-> f, back |-> f],
      step |-> stride - 1, first_take |-> ft] :
        <<f, ft>> \in (0..InnerLen) \X BOOLEAN}

\* the specialized adapters of the current stride whose counter is 0
DrainedRange ==
    {[iter |-> [start |-> v, end |-> 0], step |-> stride - 1, first_take |-> TRUE] :
        v \in 0..inner.t}

\* on a drained generic adapter every pull returns None and leaves it
\* drained, and size_hint is (0, Some(0))
StaysDrained(a) ==
    /\ ExactLen(a) = [low |-> 0, high |-> 0]
    /\ LET f == spec_next(a)
           b == spec_next_back(a)
       IN  /\ f.item = None /\ f.a \in DrainedGeneric
           /\ b.item = None /\ b.a \in DrainedGeneric
    /\ \A n \in 0..MAX :
          LET f == spec_nth(a, n)
              b == spec_nth_back(a, n)
          IN  /\ f.item = None /\ f.a \in DrainedGeneric
              /\ b.item = None /\ b.a \in DrainedGeneric

\* the same on a specialized adapter whose counter is 0
RangeStaysDrained(t, a) ==
    /\ range_spec_size_hint(a) = [low |-> 0, high |-> 0]
    /\ LET f == range_spec_next(t, a)
           b == range_spec_next_back(t, a)
       IN  /\ f.item = None /\ f.a \in DrainedRange
           /\ b.item = None /\ b.a \in DrainedRange
    /\ \A n \in 0..MAX :
          LET f == range_spec_nth(t, a, n)
              b == range_spec_nth_back(t, a, n)
          IN  /\ f.item = None /\ f.a \in DrainedRange
              /\ b.item = None /\ b.a \in DrainedRange

\* C36: exhaustion is stable for adapters over ranges, on both paths. Once a
\* next or a next_back has returned None the adapter is drained; and on a
\* drained adapter every next, next_back, nth and nth_back returns None and
\* leaves the adapter drained, with size_hint at (0, Some(0)): so every later
\* call returns None.
C36_ExhaustionStable ==
    (phase = "built" /\ Ranged) =>
        /\ (EndedG(fwd) \/ EndedG(bwd)) => g \in DrainedGeneric
        /\ (EndedS(fwd) \/ EndedS(bwd)) => s \in DrainedRange
        /\ IterLen(g.iter) = 0 => g \in DrainedGeneric
        /\ s.iter.end = 0 => s \in DrainedRange
        /\ \A a \in DrainedGeneric : StaysDrained(a)
        /\ \A a \in DrainedRange : RangeStaysDrained(inner.t, a)

\* next drained a two-item adapter over a range, and the next_back called
\* afterwards returned None on both paths
C36_Witness ==
    /\ phase = "built" /\ Ranged /\ stride = 2
    /\ Len(ItemsG(fwd)) = 2 /\ EndedG(fwd) /\ EndedS(fwd)
    /\ bwd = <<[g |-> None, s |-> None]>>
    /\ last.op = "next_back"


\* ------------------------------------------------------------------------
\* Reverse folds on the generic path
\* ------------------------------------------------------------------------

\* next_back until None on a generic adapter: the items returned, in order
RECURSIVE CollectNextBack(_, _)
CollectNextBack(a, fuel) ==
    LET r == spec_next_back(a)
    IN  IF r.item = None \/ fuel = 0
        THEN <<>>
        ELSE <<r.item>> \o CollectNextBack(r.a, fuel - 1)

\* C37: from every reachable state over an exact-size inner, generic rfold
\* and try_rfold hand the closure exactly the items repeated next_back would
\* return from that state, in the same order. After a next_back (or a
\* short-circuited try_rfold) that returned an item, next_back_index() equals
\* step, so the inner.nth_back(step) the folds call is the call next_back
\* makes. After a try_rfold that short-circuited on its j-th item the next
\* next_back returns the item after it from the back.
C37_RfoldVisitsNextBackItems ==
    (phase = "built" /\ Exact) =>
        LET all == CollectNextBack(g, Fuel)
            q == spec_next_back(g)
        IN  /\ spec_rfold(g).visited = all
            /\ spec_next_back(spec_rfold(g).a).item = None
            /\ q.item # None =>
                  /\ next_back_index(q.a) = q.a.step
                  /\ spec_next_back(q.a).calls = <<g.step>>
            /\ ((last.op \in {"next_back", "nth_back"} /\ last.g # None)
                   \/ (folded.op = "try_rfold" /\ folded.g.brk)) =>
                  next_back_index(g) = g.step
            /\ \A j \in BreakAt :
                  LET r == spec_try_rfold(g, j)
                  IN  IF 1 <= j /\ j <= Len(all)
                      THEN /\ r.brk /\ r.val = all[j]
                           /\ r.visited = SubSeq(all, 1, j)
                           /\ spec_next_back(r.a).item =
                                 IF j < Len(all) THEN all[j + 1] ELSE None
                      ELSE ~r.brk /\ r.val = None /\ r.visited = all

\* try_rfold on a fresh adapter of stride 2 over three items short-circuited
\* on its first item, the last one; the next next_back will return the first
C37_Witness ==
    /\ phase = "built" /\ Exact /\ stride = 2
    /\ InnerLen = 3
    /\ folded.op = "try_rfold" /\ folded.j = 1 /\ folded.first
    /\ folded.g.brk /\ folded.g.val = inner.start + 2
    /\ spec_next_back(g).item = inner.start


\* the adapters the four reverse operations of the generic path leave behind
AfterReverse(a) ==
    {spec_next_back(a).a, spec_rfold(a).a}
        \cup {spec_nth_back(a, n).a : n \in 0..MAX}
        \cup {spec_try_rfold(a, j).a : j \in BreakAt}

\* C38: on the generic path next_back, nth_back, rfold and try_rfold never
\* change first_take or step and consume the inner only from the back. So on
\* an adapter that has seen only reverse pulls since new (first_take still
\* set), a next returns the inner's item at index 0 unless the reverse pulls
\* consumed it, in which case it returns None.
C38_ReversePullsKeepFront ==
    ((phase = "built" \/ folded.op = "rfold") /\ Exact) =>
        /\ g.step = stride - 1
        /\ \A r \in AfterReverse(g) :
              /\ r.first_take = g.first_take
              /\ r.step = g.step
              /\ r.iter.base = g.iter.base
              /\ r.iter.front = g.iter.front
              /\ r.iter.back <= g.iter.back
              /\ r.iter.back >= r.iter.front
              /\ (r.first_take /\ IterLen(r.iter) > 0) =>
                    spec_next(r).item = g.iter.base + g.iter.front
        /\ g.first_take =>
              /\ g.iter.front = 0
              /\ spec_next(g).item = IF IterLen(g.iter) > 0 THEN inner.start ELSE None
        /\ (last.op = "next" /\ last.first) =>
              \/ last.g = inner.start
              \/ last.g = None /\ IterLen(g.iter) = 0

\* after reverse pulls took items off the back of a fresh adapter of stride
\* 2, the first next returned the inner's item at index 0
C38_Witness ==
    /\ phase = "built" /\ Exact /\ stride = 2
    /\ InnerLen = 3
    /\ last.op = "next" /\ last.first /\ last.g = inner.start
    /\ g.iter.back = 2


\* ------------------------------------------------------------------------
\* The branch hints
\* ------------------------------------------------------------------------

\* C40: likely(b) and unlikely(b) are the identity on booleans; so, in every
\* reachable state and for every n, the loop of generic nth returns from its
\* first iteration, through the single call inner.nth(n * step - 1), exactly
\* when checked_mul(n, step) succeeded, that is when n * step <= usize::MAX.
C40_BranchHintsAreIdentity ==
    /\ \A b \in BOOLEAN : likely(b) = b /\ unlikely(b) = b
    /\ phase = "built" =>
          \A n \in 0..MAX :
              LET e == nth_loop_entry(g, n)
                  mul == checked_mul(e.n, e.step)
                  r == nth_loop(g, e.n, e.step, <<>>)
              IN  e.enters =>
                      /\ (mul # None) <=> (e.n * e.step <= MAX)
                      /\ (mul # None) <=> (Len(r.calls) = 1)
                      /\ (mul # None) => r.calls = <<e.n * e.step - 1>>

\* nth(MAX - 1) with stride 2 after the first item: MAX * 2 overflows, so the
\* loop did not return from its first iteration
C40_Witness ==
    /\ phase = "built" /\ stride = 2
    /\ last.op = "nth" /\ ~last.first /\ last.n = MAX - 1
    /\ checked_mul(last.n + 1, stride) = None
    /\ Len(last.calls) > 1

====
